---- MODULE Spec2Model ----
(***************************************************************************)
(* Model of the transfer core of ve-tos-golang-sdk (tos/type_internal.go): *)
(* the canceler, the retryer, the upload/download checkpoints and the      *)
(* progress decorators.  Each component has its own variables and its own  *)
(* specification; a specification leaves the other components' variables   *)
(* at their idle values.                                                   *)
(***************************************************************************)
EXTENDS Integers, Sequences, FiniteSets, TLC

(***************************************************************************)
(* Bounds of the model.                                                    *)
(***************************************************************************)
\* goroutines that call canceler.Cancel
NumCancelers == 2
\* Cancel calls each goroutine makes
MaxCancelCalls == 1
\* longest backoff sequence of a retryer
MaxBackoffLen == 2
\* longest single backoff duration, in clock ticks
MaxDuration == 2
\* the clock stops ticking on its own at this time (sleeps may pass it)
MaxTime == 3
\* fields of the request or of the live metadata that may differ from a
\* download checkpoint at once
MaxMismatch == 2
\* most parts a transfer is planned with
MaxParts == 2
\* largest part stream, in MiB
MaxPartMiB == 3
\* largest declared total of a single stream, in bytes
MaxStreamBytes == 3
\* empty reads (0, nil) the wrapped stream of a single stream may return
MaxEmptyReads == 1
\* largest len(p) of a rate-limited Read
MaxWant == 2
\* longest wait a limiter suggests, in clock ticks
MaxWait == 1
\* refusals and sleeps of one rate-limited Read are counted up to this
MaxRefusals == 2

VARIABLES
    \* canceler (type_internal.go:51-58)
    called,         \* canceler.called, the one-shot flag (int32 0/1)
    cancelHandle,   \* canceler.cancelHandle: "nil", "open" or "closed"
    cleaner,        \* canceler.cleaner # nil
    aborter,        \* canceler.aborter # nil
    cancelLog,      \* effects in the order they happened (cleaner, aborter, close, ...)
    cpc,            \* per goroutine: the line of Cancel it is at
    cIsAbort,       \* per goroutine: the isAbort argument of its current call
    cCalls,         \* per goroutine: Cancel calls started so far
    cAllAbort,      \* every Cancel call so far passed isAbort = true
    cOverlap,       \* some Cancel call started while another was under way
    \* retryer (type_internal.go:421-424) and one call of Run
    backoff,        \* retryer.backoff
    jitter,         \* retryer.jitter, in hundredths (0.25 is 25)
    ctxKind,        \* ctx: "nil", "background" (no deadline) or "deadline"
    ctxDeadline,    \* ctx.Deadline() when ctxKind = "deadline"
    ctxErr,         \* ctx.Err() != nil (cancelled, or its deadline timer fired)
    now,            \* time.Now(), in clock ticks
    rpc,            \* the line of Run the caller is at
    ri,             \* Run's loop variable i
    ferr,           \* Run's ferr
    sleepTime,      \* Run's sleepTime
    ret,            \* what Run returned
    attempts,       \* calls of work so far
    lastWork,       \* what the latest call of work returned
    allFailed,      \* every call of work so far returned an error
    allRetry,       \* every answer of the classifier so far was Retry
    sleeps,         \* the durations slept, in order
    builtBy,        \* who made the retryer: "newRetryer" (any caller) or "NewClientV2"
    \* download checkpoint and the request validated against it
    dcp,            \* the downloadCheckpoint (type_internal.go:101-118)
    dInput,         \* the DownloadFileInput fields Valid reads
    dHead,          \* the HeadObjectV2Output fields Valid reads
    dValid,         \* what downloadCheckpoint.Valid returned: "none", "true", "false"
    \* upload checkpoint and the request validated against it
    ucp,            \* the uploadCheckpoint (type_internal.go:170-182)
    uReq,           \* bucketName, key, uploadFile, the request's part size, the file's stat
    uPlanStat,      \* the file's stat when the checkpoint was made
    uValid,         \* what uploadCheckpoint.Valid returned: "none", "true", "false"
    \* recording part completions and persisting a checkpoint
    ckKind,         \* which checkpoint the transfer uses: "upload" or "download"
    planN,          \* number of parts the transfer was planned with
    cpFile,         \* the checkpoint file: [state, bytes]
    wCall,          \* <<>>, or the latest WriteToFile call: its outcome and the checkpoint before it
    lastPart,       \* part number of the latest UpdatePartsInfo, 0 before the first
    gotParts,       \* <<>>, or what GetParts returned on the checkpoint as it is now
    doCall,         \* <<>>, or the latest uploadTask.do: its task, the transport's reply, its result
    \* parallelReadCloserWithListener (type_internal.go:510-558), one per part stream
    pTotal,         \* r.total, the declared total of the transfer
    pConsumed,      \* *r.consumed, shared by all part streams
    pSubtotal,      \* *r.subtotal, shared by all part streams
    pEvents,        \* what the listener received, in order
    ppc,            \* per part stream: the line of Read its worker is at
    pRem,           \* per part stream: bytes the wrapped stream still holds
    pN,             \* per part stream: n of the current Read
    pErr,           \* per part stream: err of the current Read ("nil", "EOF", "other")
    pLc,            \* per part stream: Read's local consumed
    pLs,            \* per part stream: Read's local subtotal
    pRet,           \* per part stream: what its latest Read returned: [n, err], or <<>>
    pOwn,           \* per part stream: the events its current (or latest) Read posted
    pFailed,        \* some Read returned an error other than EOF
    pOverlap,       \* some Read started while another stream's Read was under way
    \* readCloserWithListener (type_internal.go:564-603), read by one caller
    sTotal,         \* r.total
    sConsumed,      \* r.consumed
    sEvents,        \* what the listener received, in order
    spc,            \* the line of Read the caller is at
    sRem,           \* bytes the wrapped stream still holds
    sN,             \* n of the current Read
    sErr,           \* err of the current Read ("nil", "EOF", "other")
    sRet,           \* what the latest Read returned: [n, err], or <<>> before the first
    sOwn,           \* the events the current (or latest) Read posted
    sReads,         \* n of every Read of the wrapped stream that returned bytes without failing
    sEmpty,         \* empty reads (0, nil) of the wrapped stream so far
    sFailed,        \* some Read of the wrapped stream failed
    \* ReadCloserWithLimiter (type_internal.go:609-625) and one call of Read
    lpc,            \* the line of Read the caller is at
    lWant,          \* Read's want
    lAsked,         \* the amount of the latest Acquire
    lOk,            \* ok of the latest Acquire
    lWait,          \* timeToWait of the latest Acquire
    lSlept,         \* the duration of the latest time.Sleep
    lRefusals,      \* refusals the current Read got (counted up to MaxRefusals)
    lSleeps,        \* sleeps of the current Read (counted up to MaxRefusals)
    lBaseReads,     \* Reads of the wrapped stream the current Read made
    lRet            \* what the latest Read returned: [n, err], or <<>>

cancelVars == <<called, cancelHandle, cleaner, aborter, cancelLog, cpc, cIsAbort, cCalls,
                cAllAbort, cOverlap>>

retryVars == <<backoff, jitter, ctxKind, ctxDeadline, ctxErr, now, rpc, ri, ferr,
               sleepTime, ret, attempts, lastWork, allFailed, allRetry, sleeps, builtBy>>

dValidVars == <<dInput, dHead, dValid>>
uValidVars == <<uReq, uPlanStat, uValid>>

partsVars == <<ckKind, planN, cpFile, wCall, lastPart, gotParts, doCall>>

progressVars == <<pTotal, pConsumed, pSubtotal, pEvents, ppc, pRem, pN, pErr, pLc, pLs,
                  pRet, pOwn, pFailed, pOverlap>>

streamVars == <<sTotal, sConsumed, sEvents, spc, sRem, sN, sErr, sRet, sOwn, sReads, sEmpty,
                sFailed>>

limiterVars == <<lpc, lWant, lAsked, lOk, lWait, lSlept, lRefusals, lSleeps, lBaseReads, lRet>>

vars == <<cancelVars, retryVars, dcp, dValidVars, ucp, uValidVars, partsVars, progressVars,
          streamVars, limiterVars>>

\* what each component leaves alone
exceptCancel == <<retryVars, dcp, dValidVars, ucp, uValidVars, partsVars, progressVars, streamVars,
    limiterVars>>
exceptRetry == <<cancelVars, dcp, dValidVars, ucp, uValidVars, partsVars, progressVars, streamVars,
    limiterVars>>
exceptDValid == <<cancelVars, retryVars, ucp, uValidVars, partsVars, progressVars, streamVars,
    limiterVars>>
exceptUValid == <<cancelVars, retryVars, dcp, dValidVars, partsVars, progressVars, streamVars,
    limiterVars>>
exceptParts == <<cancelVars, retryVars, dValidVars, uValidVars, progressVars, streamVars,
    limiterVars>>
exceptProgress == <<cancelVars, retryVars, dcp, dValidVars, ucp, uValidVars, partsVars, streamVars,
    limiterVars>>
exceptStream == <<cancelVars, retryVars, dcp, dValidVars, ucp, uValidVars, partsVars, progressVars,
    limiterVars>>
exceptLimiter == <<cancelVars, retryVars, dcp, dValidVars, ucp, uValidVars, partsVars, progressVars,
    streamVars>>

(***************************************************************************)
(* canceler.Cancel (type_internal.go:60-75), one step per statement.       *)
(***************************************************************************)
Cancelers == 1..NumCancelers

CancelIdle ==
    /\ called = 0
    /\ cancelHandle = "nil"
    /\ cleaner = FALSE
    /\ aborter = FALSE
    /\ cancelLog = <<>>
    /\ cpc = [g \in Cancelers |-> "idle"]
    /\ cIsAbort = [g \in Cancelers |-> FALSE]
    /\ cCalls = [g \in Cancelers |-> 0]
    /\ cAllAbort = TRUE
    /\ cOverlap = FALSE

\* a canceler as its owner builds it: flag clear, channel made or left nil,
\* cleaner and aborter optional
CancelInit ==
    /\ called = 0
    /\ cancelHandle \in {"nil", "open"}
    /\ cleaner \in BOOLEAN
    /\ aborter \in BOOLEAN
    /\ cancelLog = <<>>
    /\ cpc = [g \in Cancelers |-> "idle"]
    /\ cIsAbort = [g \in Cancelers |-> FALSE]
    /\ cCalls = [g \in Cancelers |-> 0]
    /\ cAllAbort = TRUE
    /\ cOverlap = FALSE

\* a goroutine calls c.Cancel(isAbort)
CancelCall(g, isAbort) ==
    /\ cpc[g] = "idle"
    /\ cCalls[g] < MaxCancelCalls
    /\ cpc' = [cpc EXCEPT ![g] = "L61"]
    /\ cIsAbort' = [cIsAbort EXCEPT ![g] = isAbort]
    /\ cCalls' = [cCalls EXCEPT ![g] = @ + 1]
    /\ cAllAbort' = (cAllAbort /\ isAbort)
    /\ cOverlap' = (cOverlap \/ \E h \in Cancelers : cpc[h] # "idle")
    /\ UNCHANGED <<called, cancelHandle, cleaner, aborter, cancelLog>>
    /\ UNCHANGED exceptCancel

\* a Cancel that goes on whatever the channel is
NilNotChecked(handle) == "L64"

\* where Cancel goes from line 61: it returns when the channel is nil
AfterCheckNil(handle) == IF handle = "nil" THEN "idle" ELSE "L64"

\* line 61: if c.cancelHandle == nil { return }
CancelCheckNil(g) ==
    /\ cpc[g] = "L61"
    /\ cpc' = [cpc EXCEPT ![g] = AfterCheckNil(cancelHandle)]
    /\ UNCHANGED <<called, cancelHandle, cleaner, aborter, cancelLog, cIsAbort, cCalls, cAllAbort, cOverlap>>
    /\ UNCHANGED exceptCancel

\* a flag that is stored without being compared: every caller believes it won
StoreWithoutCompare(cur, old, new) == [val |-> new, swapped |-> TRUE]

\* atomic.CompareAndSwapInt32(&c.called, 0, 1): the new value and whether it swapped
CompareAndSwapInt32(cur, old, new) ==
    IF cur = old THEN [val |-> new, swapped |-> TRUE]
    ELSE [val |-> cur, swapped |-> FALSE]

\* line 64: if atomic.CompareAndSwapInt32(&c.called, 0, 1) {
CancelCAS(g) ==
    /\ cpc[g] = "L64"
    /\ LET r == CompareAndSwapInt32(called, 0, 1) IN
        /\ called' = r.val
        /\ cpc' = [cpc EXCEPT ![g] = IF r.swapped THEN "L65" ELSE "idle"]
        /\ cancelLog' = IF r.swapped
                        THEN Append(cancelLog, [ev |-> "flag", g |-> g, isAbort |-> cIsAbort[g]])
                        ELSE cancelLog
    /\ UNCHANGED <<cancelHandle, cleaner, aborter, cIsAbort, cCalls, cAllAbort, cOverlap>>
    /\ UNCHANGED exceptCancel

\* cleaner and aborter are entered whatever isAbort is
EffectsWhateverIsAbort(isAbort) == "L66"

\* where the winner goes from line 65: into the block of lines 66-71 when
\* isAbort is true, straight to the close of line 73 otherwise
AfterIsAbort(isAbort) == IF isAbort THEN "L66" ELSE "L73"

\* line 65: if isAbort {
CancelIsAbort(g) ==
    /\ cpc[g] = "L65"
    /\ cpc' = [cpc EXCEPT ![g] = AfterIsAbort(cIsAbort[g])]
    /\ UNCHANGED <<called, cancelHandle, cleaner, aborter, cancelLog, cIsAbort, cCalls, cAllAbort, cOverlap>>
    /\ UNCHANGED exceptCancel

\* lines 66-68: if c.cleaner != nil { c.cleaner() }
CancelCleaner(g) ==
    /\ cpc[g] = "L66"
    /\ cancelLog' = IF cleaner
                    THEN Append(cancelLog, [ev |-> "cleaner", g |-> g, isAbort |-> cIsAbort[g]])
                    ELSE cancelLog
    /\ cpc' = [cpc EXCEPT ![g] = "L69"]
    /\ UNCHANGED <<called, cancelHandle, cleaner, aborter, cIsAbort, cCalls, cAllAbort, cOverlap>>
    /\ UNCHANGED exceptCancel

\* lines 69-71: if c.aborter != nil { c.aborter() }
CancelAborter(g) ==
    /\ cpc[g] = "L69"
    /\ cancelLog' = IF aborter
                    THEN Append(cancelLog, [ev |-> "aborter", g |-> g, isAbort |-> cIsAbort[g]])
                    ELSE cancelLog
    /\ cpc' = [cpc EXCEPT ![g] = "L73"]
    /\ UNCHANGED <<called, cancelHandle, cleaner, aborter, cIsAbort, cCalls, cAllAbort, cOverlap>>
    /\ UNCHANGED exceptCancel

\* line 73: close(c.cancelHandle); closing a closed channel panics
CancelClose(g) ==
    /\ cpc[g] = "L73"
    /\ cancelHandle' = "closed"
    /\ cancelLog' = Append(cancelLog,
                        [ev |-> IF cancelHandle = "open" THEN "close" ELSE "panic",
                         g |-> g, isAbort |-> cIsAbort[g]])
    /\ cpc' = [cpc EXCEPT ![g] = "idle"]
    /\ UNCHANGED <<called, cleaner, aborter, cIsAbort, cCalls, cAllAbort, cOverlap>>
    /\ UNCHANGED exceptCancel

CancelNext ==
    \/ \E g \in Cancelers, isAbort \in BOOLEAN : CancelCall(g, isAbort)
    \/ \E g \in Cancelers : CancelCheckNil(g)
    \/ \E g \in Cancelers : CancelCAS(g)
    \/ \E g \in Cancelers : CancelIsAbort(g)
    \/ \E g \in Cancelers : CancelCleaner(g)
    \/ \E g \in Cancelers : CancelAborter(g)
    \/ \E g \in Cancelers : CancelClose(g)

\* what the listener of the effects saw
CancelEvents(kind) == Len(SelectSeq(cancelLog, LAMBDA e : e.ev = kind))
cleanerRuns == CancelEvents("cleaner")
aborterRuns == CancelEvents("aborter")
RECURSIVE SumOver(_, _)
SumOver(f, S) == IF S = {} THEN 0
                 ELSE LET x == CHOOSE y \in S : TRUE IN f[x] + SumOver(f, S \ {x})
CancelCallsMade == SumOver(cCalls, Cancelers)
NoCancelRunning == \A g \in Cancelers : cpc[g] = "idle"
AllCancelsAbort == cAllAbort


(***************************************************************************)
(* C1: calling Cancel twice (sequentially or concurrently) on a canceler   *)
(* with a non-nil channel runs the cleaner exactly once and the aborter    *)
(* exactly once.  As stated, for any isAbort arguments:                    *)
(***************************************************************************)
C1_TwoCancelsRunEffectsExactlyOnce ==
    (NoCancelRunning /\ CancelCallsMade = 2 /\ cancelHandle # "nil" /\ cleaner /\ aborter)
        => (cleanerRuns = 1 /\ aborterRuns = 1)

\* C1 as amended: the effects run at most once whatever the calls are, and
\* exactly once each (when set) once two or more Cancel(true) calls returned.
C1_EffectsOnceForAbortingCancels ==
    /\ cleanerRuns <= 1
    /\ aborterRuns <= 1
    /\ (NoCancelRunning /\ CancelCallsMade >= 2 /\ cancelHandle # "nil" /\ AllCancelsAbort)
          => /\ cleanerRuns = (IF cleaner THEN 1 ELSE 0)
             /\ aborterRuns = (IF aborter THEN 1 ELSE 0)

\* two overlapping Cancel(true) calls have returned and each effect ran once
C1_Witness ==
    /\ NoCancelRunning /\ CancelCallsMade = 2 /\ AllCancelsAbort
    /\ cleaner /\ aborter
    /\ cOverlap
    /\ cleanerRuns = 1 /\ aborterRuns = 1

\* position of an effect in the body of Cancel (lines 64, 67, 70, 73)
CancelRank(ev) ==
    CASE ev = "flag" -> 0
      [] ev = "cleaner" -> 1
      [] ev = "aborter" -> 2
      [] OTHER -> 3

\* the Cancel call that set the one-shot flag, once there is one
CancelWon == cancelLog # <<>> /\ cancelLog[1].ev = "flag"
CancelWinner == cancelLog[1]
CancelClosed == CancelEvents("close") = 1

(***************************************************************************)
(* C11: in the Cancel call that wins the one-shot flag, with isAbort true  *)
(* the cleaner runs first, then the aborter, and the channel is closed     *)
(* only after both returned; with isAbort false neither runs and the       *)
(* channel is still closed.  On the log of effects: the effects appear in  *)
(* the order flag, cleaner, aborter, close; a close of an aborting winner  *)
(* has every configured effect before it; a non-aborting winner has none;  *)
(* and the winner's call does not return without the close.                *)
(***************************************************************************)
C11_CleanerThenAborterThenClose ==
    /\ \A i, j \in 1..Len(cancelLog) :
          i < j => CancelRank(cancelLog[i].ev) < CancelRank(cancelLog[j].ev)
    /\ CancelEvents("panic") = 0
    /\ (cancelHandle = "closed") <=> CancelClosed
    /\ (CancelClosed /\ CancelWinner.isAbort) =>
          /\ cleanerRuns = (IF cleaner THEN 1 ELSE 0)
          /\ aborterRuns = (IF aborter THEN 1 ELSE 0)
    /\ (CancelWon /\ ~CancelWinner.isAbort) => (cleanerRuns = 0 /\ aborterRuns = 0)
    /\ (CancelWon /\ cpc[CancelWinner.g] = "idle") => CancelClosed

\* an aborting winner ran the cleaner, then the aborter, then closed the channel
C11_Witness ==
    /\ Len(cancelLog) = 4
    /\ CancelWinner.isAbort
    /\ cancelLog[2].ev = "cleaner" /\ cancelLog[3].ev = "aborter" /\ cancelLog[4].ev = "close"
    /\ cancelHandle = "closed"

(***************************************************************************)
(* C12: once one Cancel call has set the one-shot flag, every later Cancel *)
(* call is a no-op whatever its isAbort: it changes neither the flag, nor  *)
(* the channel, nor runs an effect.  So after Cancel(false) a following    *)
(* Cancel(true) runs neither the cleaner nor the aborter.                  *)
(***************************************************************************)
C12_LaterCancelIsNoOp ==
    /\ []((CancelWon /\ ~CancelWinner.isAbort) => (cleanerRuns = 0 /\ aborterRuns = 0))
    /\ [][\A g \in Cancelers :
            (called = 1 /\ cpc[g] \in {"idle", "L61", "L64"} /\ cpc'[g] # cpc[g])
                => /\ cpc'[g] \in {"L61", "L64", "idle"}
                   /\ UNCHANGED <<called, cancelHandle, cancelLog>>]_vars

\* Cancel(false) won and returned, then another goroutine's Cancel(true)
\* ran and returned: no effect ran although both are configured
C12_Witness ==
    /\ NoCancelRunning /\ ~cOverlap
    /\ CancelWon /\ ~CancelWinner.isAbort
    /\ \E h \in Cancelers : h # CancelWinner.g /\ cCalls[h] >= 1 /\ cIsAbort[h]
    /\ cleaner /\ aborter
    /\ cleanerRuns = 0 /\ aborterRuns = 0
    /\ cancelHandle = "closed"

(***************************************************************************)
(* C23: the cancel channel is closed at most once in any sequence or       *)
(* interleaving of Cancel calls (never a second close, which would panic), *)
(* and Cancel on a canceler whose channel is nil does nothing at all: it   *)
(* does not set the one-shot flag and runs neither cleaner nor aborter,    *)
(* even when isAbort is true.                                              *)
(***************************************************************************)
C23_ClosedAtMostOnceNilIsNoOp ==
    /\ [](CancelEvents("close") + CancelEvents("panic") <= 1)
    /\ [](CancelEvents("panic") = 0)
    /\ [](cancelHandle = "nil" => (called = 0 /\ cancelLog = <<>>))
    /\ [][cancelHandle = "nil" =>
            /\ UNCHANGED <<called, cancelHandle, cancelLog>>
            /\ \A g \in Cancelers : cpc'[g] \in {"idle", "L61"}]_vars

\* two Cancel(true) calls on a canceler with a nil channel have returned:
\* the flag is clear and neither the cleaner nor the aborter ran
C23_Witness ==
    /\ cancelHandle = "nil"
    /\ NoCancelRunning /\ CancelCallsMade = 2 /\ AllCancelsAbort
    /\ cleaner /\ aborter
    /\ called = 0 /\ cleanerRuns = 0 /\ aborterRuns = 0

(***************************************************************************)
(* retryer (type_internal.go:397-488).                                     *)
(***************************************************************************)
\* retryAction (lines 399-402)
NoRetry == 0
Retry == 1

Errors == {"nil", "errA", "errB"}
Durations == 0..MaxDuration

RECURSIVE SeqsUpTo(_, _)
SeqsUpTo(S, n) ==
    IF n = 0 THEN {<<>>}
    ELSE LET shorter == SeqsUpTo(S, n - 1) IN
         shorter \cup {Append(q, x) : q \in {t \in shorter : Len(t) = n - 1}, x \in S}

Backoffs == SeqsUpTo(Durations, MaxBackoffLen)

\* arguments tried for SetJitter, in hundredths: below, inside and above [0, 1]
JitterInputs == {-25, 0, 25, 100, 125}

RetryIdle ==
    /\ backoff = <<>>
    /\ jitter = 0
    /\ ctxKind = "nil"
    /\ ctxDeadline = 0
    /\ ctxErr = FALSE
    /\ now = 0
    /\ rpc = "idle"
    /\ ri = 0
    /\ ferr = "nil"
    /\ sleepTime = 0
    /\ ret = "none"
    /\ attempts = 0
    /\ lastWork = "none"
    /\ allFailed = TRUE
    /\ allRetry = TRUE
    /\ sleeps = <<>>
    /\ builtBy = "newRetryer"

\* a constructor that leaves one retry in the retryer whatever it is given
RetryerWithOneRetry(b) == [backoff |-> <<1>>, jitter |-> 0]

\* newRetryer(backoff) (lines 434-438): the given backoff, jitter left at zero
newRetryer(b) == [backoff |-> b, jitter |-> 0]

\* the retryer of a ClientV2 (client.go:291-308): newRetryer([]time.Duration{})
\* at line 296, then SetJitter(0.25) at line 302 (0.25 lies in [0, 1], so it is kept)
NewClientV2Retryer == [newRetryer(<<>>) EXCEPT !.jitter = 25]

RetryInit ==
    /\ \/ /\ builtBy = "newRetryer"
          /\ \E b \in Backoffs :
                /\ backoff = newRetryer(b).backoff
                /\ jitter = newRetryer(b).jitter
       \/ /\ builtBy = "NewClientV2"
          /\ backoff = NewClientV2Retryer.backoff
          /\ jitter = NewClientV2Retryer.jitter
    /\ ctxKind = "nil"
    /\ ctxDeadline = 0
    /\ ctxErr = FALSE
    /\ now = 0
    /\ rpc = "idle"
    /\ ri = 0
    /\ ferr = "nil"
    /\ sleepTime = 0
    /\ ret = "none"
    /\ attempts = 0
    /\ lastWork = "none"
    /\ allFailed = TRUE
    /\ allRetry = TRUE
    /\ sleeps = <<>>

\* SetBackoff (lines 426-428). Nothing calls it on the retryer of a ClientV2:
\* its one caller, WithMaxRetryCount (client.go:144-152), is commented out and
\* the field Client.retry is not exported
SetBackoff(b) ==
    /\ rpc = "idle"
    /\ builtBy # "NewClientV2"
    /\ backoff' = b
    /\ UNCHANGED <<jitter, ctxKind, ctxDeadline, ctxErr, now, rpc, ri, ferr, sleepTime,
                   ret, attempts, lastWork, allFailed, allRetry, sleeps>>
    /\ UNCHANGED builtBy
    /\ UNCHANGED exceptRetry

\* SetJitter (lines 483-488): values outside [0, 1] are silently ignored
SetJitter(jit) ==
    /\ rpc = "idle"
    /\ jitter' = IF jit < 0 \/ jit > 100 THEN jitter ELSE jit
    /\ UNCHANGED <<backoff, ctxKind, ctxDeadline, ctxErr, now, rpc, ri, ferr, sleepTime,
                   ret, attempts, lastWork, allFailed, allRetry, sleeps>>
    /\ UNCHANGED builtBy
    /\ UNCHANGED exceptRetry

\* calcSleep (lines 476-479): the i-th backoff (i counts from 0), whatever the jitter
calcSleep(r, i) == r.backoff[i + 1]

\* the sleeps line 466 can produce in this state for index i
SleepChoices(i) == {calcSleep([backoff |-> backoff, jitter |-> jitter], i)}

\* a deadline test that only looks at the present moment
DeadlineNotYetPassed(kind, err, deadline, t, waitTime) ==
    IF kind = "nil" THEN TRUE
    ELSE IF err THEN FALSE
    ELSE IF kind # "deadline" THEN TRUE
    ELSE t <= deadline

\* worthToRetry (lines 440-453)
worthToRetry(kind, err, deadline, t, waitTime) ==
    IF kind = "nil" THEN TRUE
    ELSE IF err THEN FALSE
    ELSE IF kind # "deadline" THEN TRUE
    ELSE t + waitTime <= deadline

\* a loop bound that stops one retry short
RetriesButOne(i, b) == i + 1 < Len(b)

\* line 464, first conjunct of the loop condition: i < len(r.backoff)
MoreRetries(i, b) == i < Len(b)

\* the caller enters Run(ctx, work, classifier) with some context
RunCall(kind, deadline) ==
    /\ rpc = "idle"
    /\ ctxKind' = kind
    /\ ctxDeadline' = IF kind = "deadline" THEN deadline ELSE 0
    /\ rpc' = "L462"
    /\ ri' = 0
    /\ UNCHANGED <<backoff, jitter, ctxErr, now, ferr, sleepTime, ret, attempts,
                   lastWork, allFailed, allRetry, sleeps>>
    /\ UNCHANGED builtBy
    /\ UNCHANGED exceptRetry

\* lines 462 and 471: ferr = work(); after line 471 the loop's i++ runs
RunWork(e) ==
    /\ rpc \in {"L462", "L471"}
    /\ ferr' = e
    /\ lastWork' = e
    /\ attempts' = attempts + 1
    /\ allFailed' = (allFailed /\ e # "nil")
    /\ ri' = IF rpc = "L471" THEN ri + 1 ELSE ri
    /\ rpc' = "L464"
    /\ UNCHANGED <<backoff, jitter, ctxKind, ctxDeadline, ctxErr, now, sleepTime, ret,
                   allRetry, sleeps>>
    /\ UNCHANGED builtBy
    /\ UNCHANGED exceptRetry

\* line 464, i >= len(r.backoff): the loop ends, line 473 returns ferr
\* (the classifier is not asked: && short-circuits)
RunExhausted ==
    /\ rpc = "L464"
    /\ ~MoreRetries(ri, backoff)
    /\ rpc' = "done"
    /\ ret' = ferr
    /\ UNCHANGED <<backoff, jitter, ctxKind, ctxDeadline, ctxErr, now, ri, ferr, sleepTime,
                   attempts, lastWork, allFailed, allRetry, sleeps>>
    /\ UNCHANGED builtBy
    /\ UNCHANGED exceptRetry

\* a loop condition that goes on whatever the classifier answers
RetryWhateverTheAnswer(a) == TRUE

\* line 464, second conjunct of the loop condition: classifier.Classify(ferr) == Retry
ClassifiedRetry(a) == a = Retry

\* line 464, i < len(r.backoff): classifier.Classify(ferr) answers a
RunClassify(a) ==
    /\ rpc = "L464"
    /\ MoreRetries(ri, backoff)
    /\ allRetry' = (allRetry /\ a = Retry)
    /\ IF ClassifiedRetry(a)
       THEN rpc' = "L466" /\ ret' = ret
       ELSE rpc' = "done" /\ ret' = ferr
    /\ UNCHANGED <<backoff, jitter, ctxKind, ctxDeadline, ctxErr, now, ri, ferr, sleepTime,
                   attempts, lastWork, allFailed, sleeps>>
    /\ UNCHANGED builtBy
    /\ UNCHANGED exceptRetry

\* line 466: sleepTime := r.calcSleep(i)
RunCalcSleep ==
    /\ rpc = "L466"
    /\ sleepTime' \in SleepChoices(ri)
    /\ rpc' = "L467"
    /\ UNCHANGED <<backoff, jitter, ctxKind, ctxDeadline, ctxErr, now, ri, ferr, ret,
                   attempts, lastWork, allFailed, allRetry, sleeps>>
    /\ UNCHANGED builtBy
    /\ UNCHANGED exceptRetry

\* lines 467-469: if !worthToRetry(ctx, sleepTime) { return ferr }
RunWorthToRetry ==
    /\ rpc = "L467"
    /\ IF worthToRetry(ctxKind, ctxErr, ctxDeadline, now, sleepTime)
       THEN rpc' = "L470" /\ ret' = ret
       ELSE rpc' = "done" /\ ret' = ferr
    /\ UNCHANGED <<backoff, jitter, ctxKind, ctxDeadline, ctxErr, now, ri, ferr, sleepTime,
                   attempts, lastWork, allFailed, allRetry, sleeps>>
    /\ UNCHANGED builtBy
    /\ UNCHANGED exceptRetry

\* line 470: time.Sleep(sleepTime)
RunSleep ==
    /\ rpc = "L470"
    /\ now' = now + sleepTime
    /\ sleeps' = Append(sleeps, sleepTime)
    /\ rpc' = "L471"
    /\ UNCHANGED <<backoff, jitter, ctxKind, ctxDeadline, ctxErr, ri, ferr, sleepTime, ret,
                   attempts, lastWork, allFailed, allRetry>>
    /\ UNCHANGED builtBy
    /\ UNCHANGED exceptRetry

\* time passes while Run is under way
Tick ==
    /\ rpc \notin {"idle", "done"}
    /\ now < MaxTime
    /\ now' = now + 1
    /\ UNCHANGED <<backoff, jitter, ctxKind, ctxDeadline, ctxErr, rpc, ri, ferr, sleepTime,
                   ret, attempts, lastWork, allFailed, allRetry, sleeps>>
    /\ UNCHANGED builtBy
    /\ UNCHANGED exceptRetry

\* the owner of the context cancels it
CtxCancel ==
    /\ rpc \notin {"idle", "done"}
    /\ ctxKind # "nil"
    /\ ~ctxErr
    /\ ctxErr' = TRUE
    /\ UNCHANGED <<backoff, jitter, ctxKind, ctxDeadline, now, rpc, ri, ferr, sleepTime,
                   ret, attempts, lastWork, allFailed, allRetry, sleeps>>
    /\ UNCHANGED builtBy
    /\ UNCHANGED exceptRetry

\* the context's deadline timer fires, at or after the deadline
CtxExpire ==
    /\ rpc \notin {"idle", "done"}
    /\ ctxKind = "deadline"
    /\ now >= ctxDeadline
    /\ ~ctxErr
    /\ ctxErr' = TRUE
    /\ UNCHANGED <<backoff, jitter, ctxKind, ctxDeadline, now, rpc, ri, ferr, sleepTime,
                   ret, attempts, lastWork, allFailed, allRetry, sleeps>>
    /\ UNCHANGED builtBy
    /\ UNCHANGED exceptRetry

RetryNext ==
    \/ \E b \in Backoffs : SetBackoff(b)
    \/ \E jit \in JitterInputs : SetJitter(jit)
    \/ \E kind \in {"nil", "background", "deadline"}, d \in 0..(MaxTime + 1) : RunCall(kind, d)
    \/ \E e \in Errors : RunWork(e)
    \/ RunExhausted
    \/ \E a \in {NoRetry, Retry} : RunClassify(a)
    \/ RunCalcSleep
    \/ RunWorthToRetry
    \/ RunSleep
    \/ Tick
    \/ CtxCancel
    \/ CtxExpire


C3_GiveUpBeforeSleep ==
    [][ /\ ( /\ rpc = "L467" /\ rpc' # "L467"
             /\ ctxKind # "nil"
             /\ (ctxErr \/ (ctxKind = "deadline" /\ now + sleepTime > ctxDeadline)) )
           => (rpc' = "done" /\ ret' = lastWork /\ sleeps' = sleeps /\ attempts' = attempts)
        /\ (rpc = "done")
           => (rpc' = "done" /\ ret' = ret /\ sleeps' = sleeps /\ attempts' = attempts)
      ]_vars

\* Run gave up at the deadline check of a live context, retries still left
C3_Witness ==
    /\ rpc = "done" /\ allRetry /\ attempts <= Len(backoff)
    /\ ctxKind = "deadline" /\ ~ctxErr
    /\ now <= ctxDeadline /\ now + sleepTime > ctxDeadline
    /\ ret = lastWork /\ ret # "nil"

(***************************************************************************)
(* C13: Run re-executes work only while the classifier answers Retry: at   *)
(* the first attempt whose result it maps to NoRetry (the very first       *)
(* attempt included) Run returns that attempt's result with no sleep and   *)
(* no further attempt, even when backoff entries remain.                   *)
(***************************************************************************)
C13_NoRetryReturnsAtOnce ==
    /\ [](~allRetry => (rpc = "done" /\ ret = lastWork /\ Len(sleeps) = attempts - 1))
    /\ [][ /\ (rpc = "L464" /\ allRetry /\ ~allRetry')
              => (rpc' = "done" /\ ret' = lastWork /\ sleeps' = sleeps
                     /\ attempts' = attempts /\ now' = now)
           /\ (attempts >= 1 /\ attempts' # attempts) => (allRetry /\ allRetry')
           /\ (sleeps' # sleeps) => (allRetry /\ allRetry')
      ]_vars

\* the classifier answered NoRetry for the very first attempt's error, with
\* two backoff entries left: Run returned that error, one attempt, no sleep
C13_Witness ==
    /\ rpc = "done" /\ ~allRetry
    /\ Len(backoff) = 2 /\ backoff[1] > 0
    /\ attempts = 1 /\ sleeps = <<>> /\ now = 0
    /\ ret = lastWork /\ ret = "errA"

(***************************************************************************)
(* C24: the retryer NewClientV2 builds has an empty backoff, so Run on it  *)
(* calls work exactly once and returns its result: it never sleeps and     *)
(* never retries, whatever the classifier would answer.                    *)
(***************************************************************************)
C24_ClientV2NeverRetries ==
    builtBy = "NewClientV2" =>
        /\ backoff = <<>>
        /\ attempts <= 1
        /\ sleeps = <<>>
        /\ rpc \in {"idle", "L462", "L464", "done"}
        /\ (rpc \in {"L464", "done"}) => attempts = 1
        /\ (rpc = "done") => ret = lastWork

\* Run on a ClientV2's retryer returned the error of its one attempt
C24_Witness ==
    /\ builtBy = "NewClientV2" /\ jitter = 25
    /\ rpc = "done" /\ attempts = 1 /\ sleeps = <<>>
    /\ ret = "errA" /\ lastWork = "errA"

(***************************************************************************)
(* C10: the sleep before the i-th retry is backoff[i] perturbed at random  *)
(* within +-jitter * backoff[i], so the possible sleeps depend on the      *)
(* jitter set with SetJitter (a non-zero jitter on a non-zero backoff      *)
(* allows sleeps other than backoff[i]).                                   *)
(***************************************************************************)
C10_JitterPerturbsSleep ==
    \A i \in 0..(Len(backoff) - 1) :
        /\ \A d \in SleepChoices(i) :
              /\ 100 * d >= 100 * backoff[i + 1] - jitter * backoff[i + 1]
              /\ 100 * d <= 100 * backoff[i + 1] + jitter * backoff[i + 1]
        /\ (jitter > 0 /\ backoff[i + 1] > 0) => SleepChoices(i) # {backoff[i + 1]}


(***************************************************************************)
(* Checkpoints (type_internal.go:80-219).                                  *)
(***************************************************************************)
BoolStr(b) == IF b THEN "true" ELSE "false"

\* time.Time values: Go's != compares the struct, so the same instant in
\* another location is a different value
Time(sec, loc) == [sec |-> sec, loc |-> loc]
TimeA == Time(1, "UTC")
Times == {TimeA, Time(2, "UTC"), Time(1, "Local")}
Strs == {"a", "b"}

\* a planned, not yet transferred part of a download (downloadPartInfo, lines 93-99)
PlannedDownloadPart(n) ==
    [PartNumber |-> n, RangeStart |-> 2 * (n - 1), RangeEnd |-> 2 * n - 1,
     HashCrc64ecma |-> 0, IsCompleted |-> FALSE]

\* a planned, not yet transferred part of an upload (uploadPartInfo, lines 160-168)
PlannedUploadPart(n) ==
    [uploadID |-> "u1", PartNumber |-> n, PartSize |-> 2, Offset |-> 2 * (n - 1),
     ETag |-> "", HashCrc64ecma |-> 0, IsCompleted |-> FALSE]

\* a download checkpoint made for request `in` and live metadata `head`
NewDownloadCheckpoint(in, head, parts) ==
    [checkpointPath |-> "cp", Bucket |-> in.Bucket, Key |-> in.Key,
     VersionID |-> in.VersionID, PartSize |-> in.PartSize,
     IfMatch |-> in.IfMatch, IfModifiedSince |-> in.IfModifiedSince,
     IfNoneMatch |-> in.IfNoneMatch, IfUnmodifiedSince |-> in.IfUnmodifiedSince,
     SSECAlgorithm |-> in.SSECAlgorithm, SSECKeyMD5 |-> in.SSECKeyMD5,
     ObjectInfo |-> [Etag |-> head.ETag, HashCrc64ecma |-> head.HashCrc64ecma,
                     LastModified |-> head.LastModified, ObjectSize |-> head.ContentLength],
     FileInfo |-> [FilePath |-> in.FilePath, TempFilePath |-> "tmp"],
     PartsInfo |-> parts]

DInputA ==
    [Bucket |-> "a", Key |-> "a", VersionID |-> "a", PartSize |-> 2,
     IfMatch |-> "a", IfModifiedSince |-> TimeA, IfNoneMatch |-> "a",
     IfUnmodifiedSince |-> TimeA, SSECAlgorithm |-> "a", SSECKeyMD5 |-> "a",
     FilePath |-> "a"]
DHeadA == [ETag |-> "a", HashCrc64ecma |-> 1, LastModified |-> TimeA, ContentLength |-> 2]

\* the values a field of the request or of the head result is drawn from
DInputDomain(f) ==
    CASE f \in {"IfModifiedSince", "IfUnmodifiedSince"} -> Times
      [] f = "PartSize" -> {2, 3}
      [] OTHER -> Strs
DHeadDomain(f) ==
    CASE f = "LastModified" -> Times
      [] f = "ETag" -> Strs
      [] OTHER -> {1, 2}

DcpIdle == dcp = NewDownloadCheckpoint(DInputA, DHeadA, <<PlannedDownloadPart(1)>>)

DValidIdle ==
    /\ dInput = DInputA
    /\ dHead = DHeadA
    /\ dValid = "none"

\* the checkpoint was made for this request and this object
DValidInit == DcpIdle /\ DValidIdle

\* a comparison that forgets a precondition and the checksum
ValidSkippingIfNoneMatchAndCrc(c, input, head) ==
    IF c.Bucket # input.Bucket \/ c.Key # input.Key \/ c.VersionID # input.VersionID
       \/ c.PartSize # input.PartSize
       \/ c.IfMatch # input.IfMatch \/ c.IfModifiedSince # input.IfModifiedSince
       \/ c.IfUnmodifiedSince # input.IfUnmodifiedSince
       \/ c.SSECAlgorithm # input.SSECAlgorithm \/ c.SSECKeyMD5 # input.SSECKeyMD5
    THEN FALSE
    ELSE IF c.ObjectInfo.Etag # head.ETag
            \/ c.ObjectInfo.LastModified # head.LastModified
            \/ c.ObjectInfo.ObjectSize # head.ContentLength
    THEN FALSE
    ELSE IF c.FileInfo.FilePath # input.FilePath
    THEN FALSE
    ELSE TRUE

\* downloadCheckpoint.Valid (lines 132-148)
DownloadValid(c, input, head) ==
    IF c.Bucket # input.Bucket \/ c.Key # input.Key \/ c.VersionID # input.VersionID
       \/ c.PartSize # input.PartSize
       \/ c.IfMatch # input.IfMatch \/ c.IfModifiedSince # input.IfModifiedSince
       \/ c.IfNoneMatch # input.IfNoneMatch
       \/ c.IfUnmodifiedSince # input.IfUnmodifiedSince
       \/ c.SSECAlgorithm # input.SSECAlgorithm \/ c.SSECKeyMD5 # input.SSECKeyMD5
    THEN FALSE
    ELSE IF c.ObjectInfo.Etag # head.ETag \/ c.ObjectInfo.HashCrc64ecma # head.HashCrc64ecma
            \/ c.ObjectInfo.LastModified # head.LastModified
            \/ c.ObjectInfo.ObjectSize # head.ContentLength
    THEN FALSE
    ELSE IF c.FileInfo.FilePath # input.FilePath
    THEN FALSE
    ELSE TRUE

\* the checkpoint's counterpart of a request field and of a head field
DcpOfInput(c, f) == IF f = "FilePath" THEN c.FileInfo.FilePath ELSE c[f]
DcpOfHead(c, f) ==
    CASE f = "ETag" -> c.ObjectInfo.Etag
      [] f = "ContentLength" -> c.ObjectInfo.ObjectSize
      [] OTHER -> c.ObjectInfo[f]

DInputDiffs(in) == {f \in DOMAIN in : in[f] # DcpOfInput(dcp, f)}
DHeadDiffs(h) == {f \in DOMAIN h : h[f] # DcpOfHead(dcp, f)}

\* the caller comes back with a request that differs in field f
DChangeInput(f, v) ==
    /\ v # dInput[f]
    /\ LET in == [dInput EXCEPT ![f] = v] IN
        /\ Cardinality(DInputDiffs(in)) + Cardinality(DHeadDiffs(dHead)) <= MaxMismatch
        /\ dInput' = in
    /\ dValid' = "none"
    /\ UNCHANGED <<dcp, dHead>>
    /\ UNCHANGED exceptDValid

\* the remote object changed: the head request answers differently in field f
DChangeHead(f, v) ==
    /\ v # dHead[f]
    /\ LET h == [dHead EXCEPT ![f] = v] IN
        /\ Cardinality(DInputDiffs(dInput)) + Cardinality(DHeadDiffs(h)) <= MaxMismatch
        /\ dHead' = h
    /\ dValid' = "none"
    /\ UNCHANGED <<dcp, dInput>>
    /\ UNCHANGED exceptDValid

\* checkpoint.Valid(input, head)
DCallValid ==
    /\ dValid = "none"
    /\ dValid' = BoolStr(DownloadValid(dcp, dInput, dHead))
    /\ UNCHANGED <<dcp, dInput, dHead>>
    /\ UNCHANGED exceptDValid

DValidNext ==
    \/ \E f \in DOMAIN DInputA : \E v \in DInputDomain(f) : DChangeInput(f, v)
    \/ \E f \in DOMAIN DHeadA : \E v \in DHeadDomain(f) : DChangeHead(f, v)
    \/ DCallValid

(***************************************************************************)
(* C4: downloadCheckpoint.Valid is all-or-nothing: false when any one of   *)
(* bucket, key, version id, part size, IfMatch, IfModifiedSince,           *)
(* IfNoneMatch, IfUnmodifiedSince, file path, or the live entity tag,      *)
(* size, last-modified or checksum differs; true when every compared       *)
(* field is equal.                                                         *)
(***************************************************************************)
C4ListedInput == {"Bucket", "Key", "VersionID", "PartSize", "IfMatch", "IfModifiedSince",
                  "IfNoneMatch", "IfUnmodifiedSince", "FilePath"}
C4ListedHead == {"ETag", "ContentLength", "LastModified", "HashCrc64ecma"}

C4_DownloadValidAllOrNothing ==
    dValid # "none" =>
        /\ ((DInputDiffs(dInput) \cap C4ListedInput) # {} \/ (DHeadDiffs(dHead) \cap C4ListedHead) # {})
              => dValid = "false"
        /\ (DInputDiffs(dInput) = {} /\ DHeadDiffs(dHead) = {}) => dValid = "true"

\* Valid refused a checkpoint that differs from the request in IfNoneMatch only
C4_Witness ==
    /\ dValid = "false"
    /\ DInputDiffs(dInput) = {"IfNoneMatch"}
    /\ DHeadDiffs(dHead) = {}


(***************************************************************************)
(* uploadCheckpoint.Valid (type_internal.go:184-192).                      *)
(***************************************************************************)
\* nanoseconds per second: ModTime() has nanosecond resolution, Unix() seconds
NanosPerSecond == 1000000000

\* time.Time.Unix() of a modification time given in nanoseconds
Unix(t) == t \div NanosPerSecond

ModTimes == {NanosPerSecond, NanosPerSecond + 1, 2 * NanosPerSecond}

\* an upload checkpoint made for bucket, key and file at part size ps, with
\* the file's stat as it was then
NewUploadCheckpoint(uploadID, req, stat, parts) ==
    [checkpointPath |-> "cp", Bucket |-> req.bucketName, Key |-> req.key,
     UploadID |-> uploadID, PartSize |-> req.PartSize,
     SSECAlgorithm |-> "", SSECKeyMD5 |-> "", EncodingType |-> "",
     FilePath |-> req.uploadFile,
     FileInfo |-> [LastModified |-> Unix(stat.ModTime), Size |-> stat.Size],
     PartsInfo |-> parts]

UStatA == [Size |-> 2, ModTime |-> NanosPerSecond]
UReqA == [bucketName |-> "a", key |-> "a", uploadFile |-> "a", PartSize |-> 2, stat |-> UStatA]

UReqDomain(f) ==
    CASE f = "PartSize" -> {2, 3}
      [] f = "stat" -> [Size : {2, 3}, ModTime : ModTimes]
      [] OTHER -> Strs

UcpIdle == ucp = NewUploadCheckpoint("u1", UReqA, UStatA, <<PlannedUploadPart(1)>>)

UValidIdle ==
    /\ uReq = UReqA
    /\ uPlanStat = UStatA
    /\ uValid = "none"

\* the checkpoint was made for this request and this file; its upload id
\* may be missing
UValidInit ==
    /\ UValidIdle
    /\ \E id \in {"", "u1"} :
          ucp = NewUploadCheckpoint(id, UReqA, UStatA, <<PlannedUploadPart(1)>>)

\* uploadCheckpoint.Valid (lines 184-192)
UploadValid(u, uploadFileStat, bucketName, key, uploadFile) ==
    IF u.UploadID = "" \/ u.Bucket # bucketName \/ u.Key # key \/ u.FilePath # uploadFile
    THEN FALSE
    ELSE IF u.FileInfo.Size # uploadFileStat.Size
            \/ u.FileInfo.LastModified # Unix(uploadFileStat.ModTime)
    THEN FALSE
    ELSE TRUE

\* the caller comes back with another request, or the file has changed
UChangeRequest(f, v) ==
    /\ v # uReq[f]
    /\ uReq' = [uReq EXCEPT ![f] = v]
    /\ uValid' = "none"
    /\ UNCHANGED <<ucp, uPlanStat>>
    /\ UNCHANGED exceptUValid

\* checkpoint.Valid(stat, bucket, key, filePath)
UCallValid ==
    /\ uValid = "none"
    /\ uValid' = BoolStr(UploadValid(ucp, uReq.stat, uReq.bucketName, uReq.key, uReq.uploadFile))
    /\ UNCHANGED <<ucp, uReq, uPlanStat>>
    /\ UNCHANGED exceptUValid

UValidNext ==
    \/ \E f \in DOMAIN UReqA : \E v \in UReqDomain(f) : UChangeRequest(f, v)
    \/ UCallValid

(***************************************************************************)
(* C5: changing any one of bucket, key, local file path, part size, file   *)
(* size or file modification time between the checkpoint and the current   *)
(* request/file makes uploadCheckpoint.Valid return false.                 *)
(***************************************************************************)
C5_UploadValidRejectsAnyChange ==
    (/\ uValid # "none"
     /\ \/ ucp.Bucket # uReq.bucketName
        \/ ucp.Key # uReq.key
        \/ ucp.FilePath # uReq.uploadFile
        \/ ucp.PartSize # uReq.PartSize
        \/ uPlanStat.Size # uReq.stat.Size
        \/ uPlanStat.ModTime # uReq.stat.ModTime)
    => uValid = "false"


(***************************************************************************)
(* UpdatePartsInfo and WriteToFile of both checkpoints                     *)
(* (type_internal.go:120-130, 150-152, 205-219).                           *)
(***************************************************************************)
\* what a finished upload task records for part n (lines 369-377): the entity
\* tag and checksum are the transport's
UploadedPart(n, etag, crc) ==
    [PlannedUploadPart(n) EXCEPT !.ETag = etag, !.HashCrc64ecma = crc, !.IsCompleted = TRUE]

\* what a finished download task records for part n (downloadPartInfo, lines 93-99)
DownloadedPart(n, crc) ==
    [PlannedDownloadPart(n) EXCEPT !.HashCrc64ecma = crc, !.IsCompleted = TRUE]

UploadPartInputs(N) == {UploadedPart(n, t[1], t[2]) : n \in 1..N, t \in {<<"e1", 1>>, <<"e2", 2>>}}
DownloadPartInputs(N) == {DownloadedPart(n, crc) : n \in 1..N, crc \in {1, 2}}

\* part lists of a fresh plan, or of a checkpoint loaded for resuming
UploadPlans(N) ==
    {[n \in 1..N |-> IF n \in done THEN UploadedPart(n, "e1", 1) ELSE PlannedUploadPart(n)] :
        done \in SUBSET (1..N)}
DownloadPlans(N) ==
    {[n \in 1..N |-> IF n \in done THEN DownloadedPart(n, 1) ELSE PlannedDownloadPart(n)] :
        done \in SUBSET (1..N)}

PartsIdle ==
    /\ ckKind = "upload"
    /\ planN = 1
    /\ cpFile = [state |-> "absent", bytes |-> <<>>]
    /\ wCall = <<>>
    /\ lastPart = 0
    /\ gotParts = <<>>
    /\ doCall = <<>>

PartsInit ==
    /\ ckKind \in {"upload", "download"}
    /\ planN \in 1..MaxParts
    /\ cpFile = [state |-> "absent", bytes |-> <<>>]
    /\ wCall = <<>>
    /\ lastPart = 0
    /\ gotParts = <<>>
    /\ doCall = <<>>
    /\ IF ckKind = "upload"
       THEN /\ DcpIdle
            /\ \E parts \in UploadPlans(planN) :
                  ucp = NewUploadCheckpoint("u1", UReqA, UStatA, parts)
       ELSE /\ UcpIdle
            /\ \E parts \in DownloadPlans(planN) :
                  dcp = NewDownloadCheckpoint(DInputA, DHeadA, parts)

\* a recorder that adds the part at the end of the list
AppendPartsInfo(c, part) == [c EXCEPT !.PartsInfo = Append(@, part)]

\* uploadCheckpoint.UpdatePartsInfo (lines 205-207): u.PartsInfo[part.PartNumber-1] = part
\* (Go's index i is index i + 1 of the sequence)
UploadUpdatePartsInfo(u, part) == [u EXCEPT !.PartsInfo[(part.PartNumber - 1) + 1] = part]

\* a recorder that writes every part into the first slot
RecordInFirstSlot(c, part) == [c EXCEPT !.PartsInfo[1] = part]

\* downloadCheckpoint.UpdatePartsInfo (lines 150-152)
DownloadUpdatePartsInfo(c, part) == [c EXCEPT !.PartsInfo[(part.PartNumber - 1) + 1] = part]

\* json.Marshal of the checkpoints: the unexported fields (checkpointPath, the
\* parts' uploadID) are not written
MarshalUpload(u) ==
    [Bucket |-> u.Bucket, Key |-> u.Key, UploadID |-> u.UploadID, PartSize |-> u.PartSize,
     SSECAlgorithm |-> u.SSECAlgorithm, SSECKeyMD5 |-> u.SSECKeyMD5,
     EncodingType |-> u.EncodingType, FilePath |-> u.FilePath, FileInfo |-> u.FileInfo,
     PartsInfo |-> [i \in DOMAIN u.PartsInfo |->
                      [PartNumber |-> u.PartsInfo[i].PartNumber,
                       PartSize |-> u.PartsInfo[i].PartSize,
                       Offset |-> u.PartsInfo[i].Offset,
                       ETag |-> u.PartsInfo[i].ETag,
                       HashCrc64ecma |-> u.PartsInfo[i].HashCrc64ecma,
                       IsCompleted |-> u.PartsInfo[i].IsCompleted]]]
MarshalDownload(c) ==
    [Bucket |-> c.Bucket, Key |-> c.Key, VersionID |-> c.VersionID, PartSize |-> c.PartSize,
     IfMatch |-> c.IfMatch, IfModifiedSince |-> c.IfModifiedSince,
     IfNoneMatch |-> c.IfNoneMatch, IfUnmodifiedSince |-> c.IfUnmodifiedSince,
     SSECAlgorithm |-> c.SSECAlgorithm, SSECKeyMD5 |-> c.SSECKeyMD5,
     ObjectInfo |-> c.ObjectInfo, FileInfo |-> c.FileInfo, PartsInfo |-> c.PartsInfo]

\* a writer that reports only a failed serialisation
WriteErrorSwallowed(marshalOk, writeOk) ==
    IF ~marshalOk THEN "TosClientError(marshal)" ELSE "nil"

\* WriteToFile's return value (lines 121-129 and 210-218)
WriteToFileResult(marshalOk, writeOk) ==
    IF ~marshalOk THEN "TosClientError(marshal)"
    ELSE IF ~writeOk THEN "TosClientError(write)"
    ELSE "nil"

\* the file after WriteToFile: untouched when Marshal failed; the bytes when
\* ioutil.WriteFile succeeded; when it failed, untouched or truncated/partly written
FileAfterWrite(marshalOk, writeOk, bytes) ==
    IF ~marshalOk THEN {cpFile}
    ELSE IF writeOk THEN {[state |-> "written", bytes |-> <<bytes>>]}
    ELSE {cpFile, [state |-> "torn", bytes |-> <<>>]}

\* a worker's result is recorded in the upload checkpoint
UUpdatePartsInfo(part) ==
    /\ ckKind = "upload"
    /\ ucp' = UploadUpdatePartsInfo(ucp, part)
    /\ wCall' = <<>>
    /\ lastPart' = part.PartNumber
    /\ gotParts' = <<>>
    /\ UNCHANGED <<dcp, ckKind, planN, cpFile, doCall>>
    /\ UNCHANGED exceptParts

\* a worker's result is recorded in the download checkpoint
DUpdatePartsInfo(part) ==
    /\ ckKind = "download"
    /\ dcp' = DownloadUpdatePartsInfo(dcp, part)
    /\ wCall' = <<>>
    /\ lastPart' = part.PartNumber
    /\ UNCHANGED <<ucp, ckKind, planN, cpFile, gotParts, doCall>>
    /\ UNCHANGED exceptParts

\* uploadCheckpoint.WriteToFile (lines 209-219)
UWriteToFile(marshalOk, writeOk) ==
    /\ ckKind = "upload"
    /\ cpFile' \in FileAfterWrite(marshalOk, writeOk, MarshalUpload(ucp))
    /\ wCall' = <<[marshalOk |-> marshalOk, writeOk |-> writeOk,
                   err |-> WriteToFileResult(marshalOk, writeOk),
                   before |-> <<ucp>>]>>
    /\ UNCHANGED <<ucp, dcp, ckKind, planN, lastPart, gotParts, doCall>>
    /\ UNCHANGED exceptParts

\* downloadCheckpoint.WriteToFile (lines 120-130)
DWriteToFile(marshalOk, writeOk) ==
    /\ ckKind = "download"
    /\ cpFile' \in FileAfterWrite(marshalOk, writeOk, MarshalDownload(dcp))
    /\ wCall' = <<[marshalOk |-> marshalOk, writeOk |-> writeOk,
                   err |-> WriteToFileResult(marshalOk, writeOk),
                   before |-> <<dcp>>]>>
    /\ UNCHANGED <<ucp, dcp, ckKind, planN, lastPart, gotParts, doCall>>
    /\ UNCHANGED exceptParts

\* a listing that starts from the last record
GetPartsBackwards(u) ==
    [i \in 1..Len(u.PartsInfo) |->
        [PartNumber |-> u.PartsInfo[Len(u.PartsInfo) + 1 - i].PartNumber,
         ETag |-> u.PartsInfo[Len(u.PartsInfo) + 1 - i].ETag]]

\* the loop of lines 196-201 over the first k records
RECURSIVE AppendUploadedParts(_, _)
AppendUploadedParts(info, k) ==
    IF k = 0 THEN <<>>
    ELSE Append(AppendUploadedParts(info, k - 1),
                [PartNumber |-> info[k].PartNumber, ETag |-> info[k].ETag])

\* uploadCheckpoint.GetParts (lines 194-203)
GetParts(u) == AppendUploadedParts(u.PartsInfo, Len(u.PartsInfo))

\* the upload asks for the list of parts to complete the multipart upload with
UGetParts ==
    /\ ckKind = "upload"
    /\ gotParts' = <<GetParts(ucp)>>
    /\ UNCHANGED <<ucp, dcp, ckKind, planN, cpFile, wCall, lastPart, doCall>>
    /\ UNCHANGED exceptParts

\* the uploadTask of part n (lines 318-331), made from the planned part
UploadTaskOf(n) ==
    [UploadID |-> PlannedUploadPart(n).uploadID, PartNumber |-> n,
     Offset |-> PlannedUploadPart(n).Offset, PartSize |-> PlannedUploadPart(n).PartSize]

\* what UploadPartV2 (line 361) can return for a transfer of N parts: an error,
\* or an output whose PartNumber, ETag and HashCrc64ecma are the transport's
UploadPartV2Outputs(N) ==
    {[err |-> e, PartNumber |-> q, ETag |-> t[1], HashCrc64ecma |-> t[2]] :
        e \in {"nil", "errA"}, q \in 1..N, t \in {<<"e1", 1>>, <<"e2", 2>>}}

\* the request getBaseInput builds (lines 380-395): the fields that name the part
getBaseInput(t) == [UploadID |-> t.UploadID, PartNumber |-> t.PartNumber, ContentLength |-> t.PartSize]

\* uploadTask.do (lines 334-378): rec is <<>> for nil, or holds the uploadPartInfo
do(t, openOk, seekOk, output) ==
    IF ~openOk THEN [rec |-> <<>>, err |-> "TosClientError(open)"]
    ELSE IF ~seekOk THEN [rec |-> <<>>, err |-> "TosClientError(seek)"]
    ELSE IF output.err # "nil" THEN [rec |-> <<>>, err |-> output.err]
    ELSE [rec |-> <<[uploadID |-> t.UploadID,
                     PartNumber |-> output.PartNumber,
                     PartSize |-> t.PartSize,
                     Offset |-> t.Offset,
                     ETag |-> output.ETag,
                     HashCrc64ecma |-> output.HashCrc64ecma,
                     IsCompleted |-> TRUE]>>,
          err |-> "nil"]

\* a worker runs the task of part n; the transport is reached only when the
\* file was opened and positioned
UTaskDo(n, openOk, seekOk, output) ==
    /\ ckKind = "upload"
    /\ doCall' = <<[task |-> UploadTaskOf(n),
                    request |-> IF openOk /\ seekOk THEN <<getBaseInput(UploadTaskOf(n))>> ELSE <<>>,
                    reply |-> IF openOk /\ seekOk THEN <<output>> ELSE <<>>,
                    res |-> do(UploadTaskOf(n), openOk, seekOk, output),
                    before |-> <<>>, after |-> <<>>]>>
    /\ UNCHANGED <<ucp, dcp, ckKind, planN, cpFile, wCall, lastPart, gotParts>>
    /\ UNCHANGED exceptParts

\* the record the latest do returned is recorded in the upload checkpoint
URecordTaskResult ==
    /\ ckKind = "upload"
    /\ doCall # <<>>
    /\ doCall[1].res.rec # <<>>
    /\ doCall[1].after = <<>>
    /\ ucp' = UploadUpdatePartsInfo(ucp, doCall[1].res.rec[1])
    /\ wCall' = <<>>
    /\ lastPart' = doCall[1].res.rec[1].PartNumber
    /\ gotParts' = <<>>
    /\ doCall' = <<[doCall[1] EXCEPT !.before = <<ucp.PartsInfo>>,
                                     !.after = <<ucp'.PartsInfo>>]>>
    /\ UNCHANGED <<dcp, ckKind, planN, cpFile>>
    /\ UNCHANGED exceptParts

\* the workers of an upload: tasks are run and their records recorded
TaskNext ==
    \/ \E n \in 1..planN, openOk \in BOOLEAN, seekOk \in BOOLEAN,
          output \in UploadPartV2Outputs(planN) : UTaskDo(n, openOk, seekOk, output)
    \/ URecordTaskResult

PartsNext ==
    \/ \E part \in UploadPartInputs(planN) : UUpdatePartsInfo(part)
    \/ \E part \in DownloadPartInputs(planN) : DUpdatePartsInfo(part)
    \/ \E marshalOk \in BOOLEAN, writeOk \in BOOLEAN : UWriteToFile(marshalOk, writeOk)
    \/ \E marshalOk \in BOOLEAN, writeOk \in BOOLEAN : DWriteToFile(marshalOk, writeOk)
    \/ UGetParts

\* the part list of the checkpoint in use
PartsInfo == IF ckKind = "upload" THEN ucp.PartsInfo ELSE dcp.PartsInfo

(***************************************************************************)
(* C7: index identity.  The number of part records stays the planned N and *)
(* PartsInfo[i].PartNumber == i+1 holds for every index, after any         *)
(* sequence of UpdatePartsInfo calls with part numbers in 1..N.            *)
(***************************************************************************)
C7_IndexIdentity ==
    /\ Len(PartsInfo) = planN
    /\ \A i \in 0..(planN - 1) : PartsInfo[i + 1].PartNumber = i + 1

\* part 2 was recorded while part 1 is still to do
C7_Witness ==
    /\ planN >= 2
    /\ PartsInfo[2].IsCompleted /\ PartsInfo[2].HashCrc64ecma = 2
    /\ ~PartsInfo[1].IsCompleted

(***************************************************************************)
(* C8: once a part record is marked complete, no later UpdatePartsInfo     *)
(* call changes any of its fields.                                         *)
(***************************************************************************)
C8_CompleteRecordsImmutable ==
    [][\A i \in DOMAIN PartsInfo :
          PartsInfo[i].IsCompleted => (i \in DOMAIN PartsInfo' /\ PartsInfo'[i] = PartsInfo[i])]_vars

(***************************************************************************)
(* C9: WriteToFile returns a client error whenever serialisation or the    *)
(* file write fails, nil only when both succeed, and leaves the in-memory  *)
(* checkpoint as it was.                                                   *)
(***************************************************************************)
C9_WriteToFileReportsFailure ==
    wCall # <<>> =>
        LET w == wCall[1] IN
        /\ (w.err = "nil") <=> (w.marshalOk /\ w.writeOk)
        /\ ~w.marshalOk => w.err = "TosClientError(marshal)"
        /\ (w.marshalOk /\ ~w.writeOk) => w.err = "TosClientError(write)"
        /\ w.before = <<IF ckKind = "upload" THEN ucp ELSE dcp>>
        /\ (w.err = "nil") => cpFile.state = "written"

\* the write of a checkpoint with a completed part failed and was reported
C9_Witness ==
    /\ wCall # <<>>
    /\ wCall[1].marshalOk /\ ~wCall[1].writeOk
    /\ wCall[1].err = "TosClientError(write)"
    /\ cpFile.state = "torn"
    /\ \E i \in DOMAIN PartsInfo : PartsInfo[i].IsCompleted


\* the checkpoint with its part list taken out
UploadNonPartFields(u) == [f \in DOMAIN u \ {"PartsInfo"} |-> u[f]]
DownloadNonPartFields(c) == [f \in DOMAIN c \ {"PartsInfo"} |-> c[f]]

\* the slots at which two part lists of the same length differ
ChangedSlots(old, new) == {i \in DOMAIN old : new[i] # old[i]}

(***************************************************************************)
(* C19: out-of-order completion is safe.  UpdatePartsInfo for part number  *)
(* p changes only slot p-1 and leaves every other slot and the non-part    *)
(* fields of the checkpoint unchanged; so completions of distinct part     *)
(* numbers give the same checkpoint in either order of application.        *)
(***************************************************************************)
C19_UpdateTouchesOnlyItsSlot ==
    /\ [][(PartsInfo' # PartsInfo) =>
            /\ DOMAIN PartsInfo' = DOMAIN PartsInfo
            /\ ChangedSlots(PartsInfo, PartsInfo') = {(lastPart' - 1) + 1}
            /\ PartsInfo'[(lastPart' - 1) + 1].PartNumber = lastPart']_vars
    /\ [][/\ UploadNonPartFields(ucp') = UploadNonPartFields(ucp)
          /\ DownloadNonPartFields(dcp') = DownloadNonPartFields(dcp)]_vars
    /\ [](ckKind = "upload" =>
            \A a, b \in UploadPartInputs(planN) :
                a.PartNumber # b.PartNumber =>
                    UploadUpdatePartsInfo(UploadUpdatePartsInfo(ucp, a), b)
                        = UploadUpdatePartsInfo(UploadUpdatePartsInfo(ucp, b), a))
    /\ [](ckKind = "download" =>
            \A a, b \in DownloadPartInputs(planN) :
                a.PartNumber # b.PartNumber =>
                    DownloadUpdatePartsInfo(DownloadUpdatePartsInfo(dcp, a), b)
                        = DownloadUpdatePartsInfo(DownloadUpdatePartsInfo(dcp, b), a))

\* both parts of a download were recorded by workers, part 1 after part 2
C19_Witness ==
    /\ ckKind = "download" /\ planN = 2
    /\ lastPart = 1
    /\ PartsInfo[1] = DownloadedPart(1, 2)
    /\ PartsInfo[2] = DownloadedPart(2, 2)

(***************************************************************************)
(* C20: GetParts returns one entry per part record, in strictly ascending  *)
(* part-number order with the part numbers 1..N each exactly once, each    *)
(* carrying its record's entity tag, whatever the order in which the parts *)
(* were completed.                                                         *)
(***************************************************************************)
C20_GetPartsAscending ==
    gotParts # <<>> =>
        LET parts == gotParts[1] IN
        /\ Len(parts) = planN
        /\ \A i \in 1..Len(parts) :
              /\ parts[i].PartNumber = i
              /\ parts[i].ETag = ucp.PartsInfo[i].ETag
              /\ DOMAIN parts[i] = {"PartNumber", "ETag"}
        /\ \A i, j \in 1..Len(parts) : i < j => parts[i].PartNumber < parts[j].PartNumber

\* part 2 was uploaded before part 1, with different entity tags, and
\* GetParts lists part 1 first
C20_Witness ==
    /\ gotParts # <<>> /\ planN = 2
    /\ lastPart = 1
    /\ ucp.PartsInfo[1] = UploadedPart(1, "e2", 2)
    /\ ucp.PartsInfo[2].IsCompleted /\ ucp.PartsInfo[2].ETag = "e1"
    /\ gotParts[1] = <<[PartNumber |-> 1, ETag |-> "e2"], [PartNumber |-> 2, ETag |-> "e1"]>>

(***************************************************************************)
(* C25: a successful uploadTask.do for the task planned for part number p  *)
(* returns a record bound to that part: its PartNumber is p, its Offset    *)
(* and PartSize are the task's and IsCompleted is true, so that recording  *)
(* it updates slot p-1 and no other slot, whatever part number the         *)
(* transport reports in its reply; a failed do returns no record.          *)
(***************************************************************************)
C25_DoRecordBoundToTask ==
    doCall # <<>> =>
        LET d == doCall[1] IN
        /\ (d.res.err # "nil") <=> (d.res.rec = <<>>)
        /\ (d.reply = <<>> \/ d.reply[1].err # "nil") => d.res.rec = <<>>
        /\ (d.res.rec # <<>>) =>
              /\ d.res.rec[1].PartNumber = d.task.PartNumber
              /\ d.res.rec[1].Offset = d.task.Offset
              /\ d.res.rec[1].PartSize = d.task.PartSize
              /\ d.res.rec[1].IsCompleted
        /\ (d.after # <<>>) =>
              /\ ChangedSlots(d.before[1], d.after[1]) \subseteq {(d.task.PartNumber - 1) + 1}
              /\ d.after[1][(d.task.PartNumber - 1) + 1] = d.res.rec[1]

(***************************************************************************)
(* parallelReadCloserWithListener.Read (type_internal.go:520-558), one     *)
(* step per statement that reads or writes shared state or calls the       *)
(* listener.  Each part stream is read by its own worker.                  *)
(***************************************************************************)
MiB == 1024 * 1024
\* line 533: the sub-total at which an RW event is posted
FlushThreshold == 4 * 1024 * 1024

PartStreams == {1, 2}
PartSizes == {k * MiB : k \in 1..MaxPartMiB}
\* byte counts one Read of the wrapped stream may return
ReadSizes == {k * MiB : k \in 1..MaxPartMiB}

\* DataTransferStatus as posted to the listener
Event(type, once, consumed, total) ==
    [type |-> type, RWOnceBytes |-> once, ConsumedBytes |-> consumed, TotalBytes |-> total]

ProgressIdle ==
    /\ pTotal = 0
    /\ pConsumed = 0
    /\ pSubtotal = 0
    /\ pEvents = <<>>
    /\ ppc = [w \in PartStreams |-> "closed"]
    /\ pRem = [w \in PartStreams |-> 0]
    /\ pN = [w \in PartStreams |-> 0]
    /\ pErr = [w \in PartStreams |-> "nil"]
    /\ pLc = [w \in PartStreams |-> 0]
    /\ pLs = [w \in PartStreams |-> 0]
    /\ pRet = [w \in PartStreams |-> <<>>]
    /\ pOwn = [w \in PartStreams |-> <<>>]
    /\ pFailed = FALSE
    /\ pOverlap = FALSE

\* the transfer's parts are non-empty and the declared total is their sum;
\* both counters start at zero
ProgressInit ==
    /\ pRem \in [PartStreams -> PartSizes]
    /\ pTotal = SumOver(pRem, PartStreams)
    /\ pConsumed = 0
    /\ pSubtotal = 0
    /\ pEvents = <<>>
    /\ ppc = [w \in PartStreams |-> "idle"]
    /\ pN = [w \in PartStreams |-> 0]
    /\ pErr = [w \in PartStreams |-> "nil"]
    /\ pLc = [w \in PartStreams |-> 0]
    /\ pLs = [w \in PartStreams |-> 0]
    /\ pRet = [w \in PartStreams |-> <<>>]
    /\ pOwn = [w \in PartStreams |-> <<>>]
    /\ pFailed = FALSE
    /\ pOverlap = FALSE

\* line 521 (n, err = r.base.Read(p)), the stream delivers n bytes; it may
\* report EOF with its last bytes or with a later empty read.  The locals
\* consumed and subtotal of the new call are not set yet.
PBaseRead(w, n, err) ==
    /\ ppc[w] = "idle"
    /\ n <= pRem[w]
    /\ err = "EOF" => n = pRem[w]
    /\ (n = 0) => err = "EOF"
    /\ pRem' = [pRem EXCEPT ![w] = @ - n]
    /\ pN' = [pN EXCEPT ![w] = n]
    /\ pErr' = [pErr EXCEPT ![w] = err]
    /\ pLc' = [pLc EXCEPT ![w] = 0]
    /\ pLs' = [pLs EXCEPT ![w] = 0]
    /\ pOwn' = [pOwn EXCEPT ![w] = <<>>]
    /\ ppc' = [ppc EXCEPT ![w] = "L522"]
    /\ pOverlap' = (pOverlap \/ \E v \in PartStreams : ppc[v] \notin {"idle", "closed"})
    /\ UNCHANGED <<pTotal, pConsumed, pSubtotal, pEvents, pRet, pFailed>>
    /\ UNCHANGED exceptProgress

\* line 521, the stream fails, possibly after delivering n bytes
PBaseReadFail(w, n) ==
    /\ ppc[w] = "idle"
    /\ n <= pRem[w]
    /\ pRem' = [pRem EXCEPT ![w] = @ - n]
    /\ pN' = [pN EXCEPT ![w] = n]
    /\ pErr' = [pErr EXCEPT ![w] = "other"]
    /\ pLc' = [pLc EXCEPT ![w] = 0]
    /\ pLs' = [pLs EXCEPT ![w] = 0]
    /\ pOwn' = [pOwn EXCEPT ![w] = <<>>]
    /\ ppc' = [ppc EXCEPT ![w] = "L522"]
    /\ pFailed' = TRUE
    /\ pOverlap' = (pOverlap \/ \E v \in PartStreams : ppc[v] \notin {"idle", "closed"})
    /\ UNCHANGED <<pTotal, pConsumed, pSubtotal, pEvents, pRet>>
    /\ UNCHANGED exceptProgress

\* where a returning Read leaves its stream: after an error or EOF the
\* caller reads no more
AfterReturn(w) == IF pErr[w] = "nil" THEN "idle" ELSE "closed"

\* Read returns its named results n and err
PReturn(w) ==
    /\ ppc' = [ppc EXCEPT ![w] = AfterReturn(w)]
    /\ pRet' = [pRet EXCEPT ![w] = [n |-> pN[w], err |-> pErr[w]]]

\* postDataTransferStatus: the listener receives a status from w's Read
PPost(w, e) ==
    /\ pEvents' = Append(pEvents, e)
    /\ pOwn' = [pOwn EXCEPT ![w] = Append(@, e)]

\* a failure test that takes end-of-stream for a failure
AnyErrorIsFailure(err) == err # "nil"

\* line 522: err != nil && err != io.EOF
PartReadFailed(err) == err # "nil" /\ err # "EOF"

\* lines 522-527: a non-EOF error posts Failed and returns n, err
PCheckErr(w) ==
    /\ ppc[w] = "L522"
    /\ IF PartReadFailed(pErr[w])
       THEN PPost(w, Event("Failed", 0, 0, 0)) /\ PReturn(w)
       ELSE /\ UNCHANGED <<pEvents, pOwn, pRet>>
            /\ ppc' = [ppc EXCEPT ![w] = "L528"]
    /\ UNCHANGED <<pTotal, pConsumed, pSubtotal, pRem, pN, pErr, pLc, pLs, pFailed, pOverlap>>
    /\ UNCHANGED exceptProgress

\* lines 528-530: if n <= 0 { return }
PCheckN(w) ==
    /\ ppc[w] = "L528"
    /\ IF pN[w] <= 0
       THEN PReturn(w)
       ELSE UNCHANGED pRet /\ ppc' = [ppc EXCEPT ![w] = "L531"]
    /\ UNCHANGED <<pTotal, pConsumed, pSubtotal, pEvents, pRem, pN, pErr, pLc, pLs, pOwn,
                   pFailed, pOverlap>>
    /\ UNCHANGED exceptProgress

\* line 531: consumed := atomic.AddInt64(r.consumed, int64(n))
PAddConsumed(w) ==
    /\ ppc[w] = "L531"
    /\ pConsumed' = pConsumed + pN[w]
    /\ pLc' = [pLc EXCEPT ![w] = pConsumed + pN[w]]
    /\ ppc' = [ppc EXCEPT ![w] = "L532"]
    /\ UNCHANGED <<pTotal, pSubtotal, pEvents, pRem, pN, pErr, pLs, pRet, pOwn, pFailed,
                   pOverlap>>
    /\ UNCHANGED exceptProgress

\* line 532: subtotal := atomic.AddInt64(r.subtotal, int64(n))
PAddSubtotal(w) ==
    /\ ppc[w] = "L532"
    /\ pSubtotal' = pSubtotal + pN[w]
    /\ pLs' = [pLs EXCEPT ![w] = pSubtotal + pN[w]]
    /\ ppc' = [ppc EXCEPT ![w] = "L533"]
    /\ UNCHANGED <<pTotal, pConsumed, pEvents, pRem, pN, pErr, pLc, pRet, pOwn, pFailed,
                   pOverlap>>
    /\ UNCHANGED exceptProgress

\* lines 533-539: at the threshold, post an RW event carrying the local sub-total
PThreshold(w) ==
    /\ ppc[w] = "L533"
    /\ IF pLs[w] >= FlushThreshold
       THEN /\ PPost(w, Event("RW", pLs[w], pLc[w], pTotal))
            /\ ppc' = [ppc EXCEPT ![w] = "L540"]
       ELSE /\ UNCHANGED <<pEvents, pOwn>>
            /\ ppc' = [ppc EXCEPT ![w] = "L542"]
    /\ UNCHANGED <<pTotal, pConsumed, pSubtotal, pRem, pN, pErr, pLc, pLs, pRet, pFailed,
                   pOverlap>>
    /\ UNCHANGED exceptProgress

\* line 540: atomic.StoreInt64(r.subtotal, 0)
PResetSubtotal(w) ==
    /\ ppc[w] = "L540"
    /\ pSubtotal' = 0
    /\ ppc' = [ppc EXCEPT ![w] = "L542"]
    /\ UNCHANGED <<pTotal, pConsumed, pEvents, pRem, pN, pErr, pLc, pLs, pRet, pOwn, pFailed,
                   pOverlap>>
    /\ UNCHANGED exceptProgress

\* a test of the shared counter instead of the value the add returned
SharedConsumedReachedTotal(w) == pConsumed = pTotal

\* line 542: if consumed == r.total, on Read's local consumed
ConsumedReachedTotal(w) == pLc[w] = pTotal

\* a final flush whatever line 534 did
FinalFlushAlways(subtotal) == TRUE

\* line 543: if subtotal < 4*1024*1024, on Read's local subtotal
FinalFlushNeeded(subtotal) == subtotal < FlushThreshold

\* lines 542-550: at the total, post the pending sub-total unless line 534 did
PFinalFlush(w) ==
    /\ ppc[w] = "L542"
    /\ IF ConsumedReachedTotal(w)
       THEN /\ IF FinalFlushNeeded(pLs[w])
               THEN PPost(w, Event("RW", pLs[w], pLc[w], pTotal))
               ELSE UNCHANGED <<pEvents, pOwn>>
            /\ ppc' = [ppc EXCEPT ![w] = "L551"]
            /\ UNCHANGED pRet
       ELSE /\ UNCHANGED <<pEvents, pOwn>>
            /\ PReturn(w)
    /\ UNCHANGED <<pTotal, pConsumed, pSubtotal, pRem, pN, pErr, pLc, pLs, pFailed, pOverlap>>
    /\ UNCHANGED exceptProgress

\* lines 551-557: post Succeeded, then return
PSucceed(w) ==
    /\ ppc[w] = "L551"
    /\ PPost(w, Event("Succeeded", 0, pLc[w], pTotal))
    /\ PReturn(w)
    /\ UNCHANGED <<pTotal, pConsumed, pSubtotal, pRem, pN, pErr, pLc, pLs, pFailed, pOverlap>>
    /\ UNCHANGED exceptProgress

ProgressNext ==
    \/ \E w \in PartStreams, n \in ReadSizes \cup {0}, err \in {"nil", "EOF"} : PBaseRead(w, n, err)
    \/ \E w \in PartStreams, n \in ReadSizes \cup {0} : PBaseReadFail(w, n)
    \/ \E w \in PartStreams : PCheckErr(w)
    \/ \E w \in PartStreams : PCheckN(w)
    \/ \E w \in PartStreams : PAddConsumed(w)
    \/ \E w \in PartStreams : PAddSubtotal(w)
    \/ \E w \in PartStreams : PThreshold(w)
    \/ \E w \in PartStreams : PResetSubtotal(w)
    \/ \E w \in PartStreams : PFinalFlush(w)
    \/ \E w \in PartStreams : PSucceed(w)

EventCount(type) == Len(SelectSeq(pEvents, LAMBDA e : e.type = type))

\* every stream was read to its end without error and no Read is under way
AllDelivered ==
    /\ ~pFailed
    /\ \A w \in PartStreams : pRem[w] = 0 /\ ppc[w] \in {"idle", "closed"}

(***************************************************************************)
(* C6: when the reads of all part streams sharing the counters deliver     *)
(* exactly the declared total, the listener receives exactly one Succeeded *)
(* event, in every interleaving and completion order (and never more than  *)
(* one on the way).                                                        *)
(***************************************************************************)
C6_ExactlyOneSucceeded ==
    /\ EventCount("Succeeded") <= 1
    /\ AllDelivered => EventCount("Succeeded") = 1

\* both streams were read to the end with overlapping Reads; one Succeeded
C6_Witness ==
    /\ AllDelivered
    /\ pOverlap
    /\ pConsumed = pTotal
    /\ EventCount("Succeeded") = 1


\* no Read of a part stream is under way
NoPartRead == \A w \in PartStreams : ppc[w] \in {"idle", "closed"}

\* the bytes the RW events of a listener's log reported
RECURSIVE SumRWOnceBytes(_)
SumRWOnceBytes(ev) ==
    IF ev = <<>> THEN 0
    ELSE (IF Head(ev).type = "RW" THEN Head(ev).RWOnceBytes ELSE 0) + SumRWOnceBytes(Tail(ev))

(***************************************************************************)
(* C16: under any interleaving of concurrent reads, every RW event posted  *)
(* at the 4 MiB threshold carries exactly the bytes added to the shared    *)
(* sub-total since the previous flush, and the reset discards no bytes     *)
(* another worker added between the add and the reset.  So, while the      *)
(* transfer is not complete and no Read is under way, the bytes the RW     *)
(* events reported plus the pending sub-total are the bytes consumed.      *)
(***************************************************************************)
C16_ThresholdFlushLosesNothing ==
    (NoPartRead /\ EventCount("Succeeded") = 0)
        => SumRWOnceBytes(pEvents) + pSubtotal = pConsumed

(***************************************************************************)
(* C17: the Read at which cumulative consumed reaches the declared total   *)
(* posts exactly one RW event, with a non-zero byte count (the pending     *)
(* sub-total it saw), and only then Succeeded.                             *)
(***************************************************************************)
C17_FinalFlushThenSucceeded ==
    \A w \in PartStreams :
        /\ (ppc[w] = "L551" \/ (ppc[w] \in {"idle", "closed"} /\ pLc[w] = pTotal)) =>
              /\ Len(pOwn[w]) = (IF ppc[w] = "L551" THEN 1 ELSE 2)
              /\ pOwn[w][1].type = "RW"
              /\ pOwn[w][1].RWOnceBytes = pLs[w]
              /\ pOwn[w][1].RWOnceBytes > 0
              /\ pOwn[w][1].ConsumedBytes = pTotal
              /\ Len(pOwn[w]) = 2 => pOwn[w][2].type = "Succeeded"
        /\ \A k \in 1..Len(pOwn[w]) :
              pOwn[w][k].type = "Succeeded" => (k = 2 /\ pOwn[w][1].type = "RW")

\* a Read reached the total with a sub-total already at the threshold: its
\* one RW event came from line 534, then Succeeded
C17_Witness ==
    \E w \in PartStreams :
        /\ ppc[w] \in {"idle", "closed"} /\ pLc[w] = pTotal
        /\ pLs[w] >= FlushThreshold
        /\ Len(pOwn[w]) = 2 /\ pOwn[w][1].type = "RW" /\ pOwn[w][2].type = "Succeeded"
        /\ pEvents[Len(pEvents)].type = "Succeeded"

\* the listener's log up to and including the first Succeeded event (the
\* whole log while there is none)
RECURSIVE UpToSucceeded(_)
UpToSucceeded(ev) ==
    IF ev = <<>> THEN <<>>
    ELSE IF Head(ev).type = "Succeeded" THEN <<Head(ev)>>
    ELSE <<Head(ev)>> \o UpToSucceeded(Tail(ev))

(***************************************************************************)
(* C21: byte conservation.  In every interleaving of concurrent reads that *)
(* together deliver exactly the declared total, the RWOnceBytes of all RW  *)
(* events up to and including the final flush sum to the declared total:   *)
(* no byte is reported twice and none is lost.                             *)
(***************************************************************************)
C21_RWBytesSumToTotal ==
    AllDelivered => SumRWOnceBytes(UpToSucceeded(pEvents)) = pTotal

(***************************************************************************)
(* C22: Succeeded is the last event of a successful transfer: in no        *)
(* interleaving of concurrent part reads does the listener receive an RW   *)
(* event after the Succeeded event.                                        *)
(***************************************************************************)
C22_NoRWAfterSucceeded ==
    ~pFailed =>
        \A j, k \in 1..Len(pEvents) :
            (pEvents[j].type = "Succeeded" /\ j < k) => pEvents[k].type # "RW"

(***************************************************************************)
(* readCloserWithListener.Read (type_internal.go:572-603): one stream,     *)
(* read by one caller, one step per statement.                             *)
(***************************************************************************)
StreamBytes == 1..MaxStreamBytes

StreamIdle ==
    /\ sTotal = 0
    /\ sConsumed = 0
    /\ sEvents = <<>>
    /\ spc = "closed"
    /\ sRem = 0
    /\ sN = 0
    /\ sErr = "nil"
    /\ sRet = <<>>
    /\ sOwn = <<>>
    /\ sReads = <<>>
    /\ sEmpty = 0
    /\ sFailed = FALSE

\* a decorator over a stream that holds exactly the declared total (> 0)
StreamInit ==
    /\ sTotal \in StreamBytes
    /\ sRem = sTotal
    /\ sConsumed = 0
    /\ sEvents = <<>>
    /\ spc = "idle"
    /\ sN = 0
    /\ sErr = "nil"
    /\ sRet = <<>>
    /\ sOwn = <<>>
    /\ sReads = <<>>
    /\ sEmpty = 0
    /\ sFailed = FALSE

\* the listener receives a status from the current Read
SPost(e) ==
    /\ sEvents' = Append(sEvents, e)
    /\ sOwn' = Append(sOwn, e)

\* Read returns its named results n and err; after an error or EOF the
\* caller reads no more
SReturn ==
    /\ sRet' = [n |-> sN, err |-> sErr]
    /\ spc' = IF sErr = "nil" THEN "idle" ELSE "closed"

\* line 573: if r.consumed == 0
NothingConsumed(consumed) == consumed = 0

\* the caller calls Read; lines 573-577 post Started while nothing was consumed
SStarted ==
    /\ spc = "idle"
    /\ IF NothingConsumed(sConsumed)
       THEN /\ sEvents' = Append(sEvents, Event("Started", 0, 0, 0))
            /\ sOwn' = <<Event("Started", 0, 0, 0)>>
       ELSE /\ sEvents' = sEvents
            /\ sOwn' = <<>>
    /\ spc' = "L578"
    /\ UNCHANGED <<sTotal, sConsumed, sRem, sN, sErr, sRet, sReads, sEmpty, sFailed>>
    /\ UNCHANGED exceptStream

\* line 578 (n, err = r.base.Read(p)): the stream delivers n bytes; it may
\* report EOF with its last bytes or with a later empty read, and it may
\* return no bytes and no error
SBaseRead(n, err) ==
    /\ spc = "L578"
    /\ n <= sRem
    /\ err = "EOF" => n = sRem
    /\ (n = 0 /\ err = "nil") => sEmpty < MaxEmptyReads
    /\ sEmpty' = IF n = 0 /\ err = "nil" THEN sEmpty + 1 ELSE sEmpty
    /\ sRem' = sRem - n
    /\ sN' = n
    /\ sErr' = err
    /\ sReads' = IF n > 0 THEN Append(sReads, n) ELSE sReads
    /\ spc' = "L579"
    /\ UNCHANGED <<sTotal, sConsumed, sEvents, sRet, sOwn, sFailed>>
    /\ UNCHANGED exceptStream

\* line 578, the stream fails, possibly after delivering n bytes
SBaseReadFail(n) ==
    /\ spc = "L578"
    /\ n <= sRem
    /\ sRem' = sRem - n
    /\ sN' = n
    /\ sErr' = "other"
    /\ sFailed' = TRUE
    /\ spc' = "L579"
    /\ UNCHANGED <<sTotal, sConsumed, sEvents, sRet, sOwn, sReads, sEmpty>>
    /\ UNCHANGED exceptStream

\* line 579: err != nil && err != io.EOF
StreamReadFailed(err) == err # "nil" /\ err # "EOF"

\* lines 579-584: a non-EOF error posts Failed and returns n, err
SCheckErr ==
    /\ spc = "L579"
    /\ IF StreamReadFailed(sErr)
       THEN SPost(Event("Failed", 0, 0, 0)) /\ SReturn
       ELSE UNCHANGED <<sEvents, sOwn, sRet>> /\ spc' = "L585"
    /\ UNCHANGED <<sTotal, sConsumed, sRem, sN, sErr, sReads, sEmpty, sFailed>>
    /\ UNCHANGED exceptStream

\* lines 585-587: if n <= 0 { return }
SCheckN ==
    /\ spc = "L585"
    /\ IF sN <= 0
       THEN SReturn
       ELSE UNCHANGED sRet /\ spc' = "L588"
    /\ UNCHANGED <<sTotal, sConsumed, sEvents, sRem, sN, sErr, sOwn, sReads, sEmpty, sFailed>>
    /\ UNCHANGED exceptStream

\* lines 588-594: r.consumed += n, then an RW status with n and r.consumed
SAddConsumed ==
    /\ spc = "L588"
    /\ sConsumed' = sConsumed + sN
    /\ SPost(Event("RW", sN, sConsumed + sN, sTotal))
    /\ spc' = "L595"
    /\ UNCHANGED <<sTotal, sRem, sN, sErr, sRet, sReads, sEmpty, sFailed>>
    /\ UNCHANGED exceptStream

\* lines 595-602: at the total post Succeeded, then return
SCheckTotal ==
    /\ spc = "L595"
    /\ IF sConsumed = sTotal
       THEN SPost(Event("Succeeded", 0, sConsumed, sTotal))
       ELSE UNCHANGED <<sEvents, sOwn>>
    /\ SReturn
    /\ UNCHANGED <<sTotal, sConsumed, sRem, sN, sErr, sReads, sEmpty, sFailed>>
    /\ UNCHANGED exceptStream

StreamNext ==
    \/ SStarted
    \/ \E n \in 0..MaxStreamBytes, err \in {"nil", "EOF"} : SBaseRead(n, err)
    \/ \E n \in 0..MaxStreamBytes : SBaseReadFail(n)
    \/ SCheckErr
    \/ SCheckN
    \/ SAddConsumed
    \/ SCheckTotal

StreamEvents(type) == SelectSeq(sEvents, LAMBDA e : e.type = type)
StreamEventCount(type) == Len(StreamEvents(type))

RECURSIVE SumPrefix(_, _)
SumPrefix(q, k) == IF k = 0 THEN 0 ELSE q[k] + SumPrefix(q, k - 1)

\* the stream was read to its end without error and no Read is under way
StreamDelivered == ~sFailed /\ sRem = 0 /\ spc \in {"idle", "closed"}

(***************************************************************************)
(* C14: for a stream that delivers exactly the declared total (> 0)        *)
(* without error over any sequence of Read calls, calls that return zero   *)
(* bytes included, the listener sees exactly one Started event, before any *)
(* other event; one RW event per read that returned bytes, carrying the    *)
(* bytes of that call and the cumulative consumed count; exactly one       *)
(* Succeeded event, right after the RW event at which consumed equals the  *)
(* total; and the RWOnceBytes sum to the total.                            *)
(***************************************************************************)
C14_SingleStreamEvents ==
    ~sFailed =>
        /\ sEvents # <<>> => sEvents[1].type = "Started"
        /\ StreamEventCount("Started") <= 1
        /\ spc \in {"idle", "closed"} =>
              /\ StreamEventCount("RW") = Len(sReads)
              /\ \A i \in 1..Len(sReads) :
                    /\ StreamEvents("RW")[i].RWOnceBytes = sReads[i]
                    /\ StreamEvents("RW")[i].ConsumedBytes = SumPrefix(sReads, i)
        /\ \A k \in 1..Len(sEvents) :
              sEvents[k].type = "Succeeded" =>
                  /\ k > 1
                  /\ sEvents[k - 1].type = "RW"
                  /\ sEvents[k - 1].ConsumedBytes = sTotal
        /\ StreamEventCount("Succeeded") <= 1
        /\ StreamDelivered =>
              /\ StreamEventCount("Started") = 1
              /\ StreamEventCount("Succeeded") = 1
              /\ SumPrefix(sReads, Len(sReads)) = sTotal


FailedEvent == Event("Failed", 0, 0, 0)

\* part streams whose Read returned an error other than end-of-stream
FailedPartReads == {w \in PartStreams : pErr[w] = "other" /\ ppc[w] = "closed"}

(***************************************************************************)
(* C15: in both progress decorators a Read whose wrapped stream returns an *)
(* error other than end-of-stream posts a Failed event, returns the same   *)
(* error and byte count, posts no RW or Succeeded event and leaves the     *)
(* consumed (and sub-total) counters unchanged even if bytes were          *)
(* returned; an end-of-stream result never produces a Failed event.        *)
(***************************************************************************)
C15_FailedReadPostsFailedOnly ==
    /\ [](EventCount("Failed") = Cardinality(FailedPartReads))
    /\ [](StreamEventCount("Failed") = (IF sErr = "other" /\ spc = "closed" THEN 1 ELSE 0))
    /\ [][\A w \in PartStreams :
            (pErr'[w] = "other" /\ ppc'[w] # ppc[w]) =>
                /\ UNCHANGED <<pConsumed, pSubtotal>>
                /\ (ppc[w] # "L522") => (pEvents' = pEvents)
                /\ (ppc[w] = "L522") =>
                      (/\ pEvents' = Append(pEvents, FailedEvent)
                       /\ pOwn'[w] = <<FailedEvent>>
                       /\ pRet'[w] = [n |-> pN[w], err |-> "other"]
                       /\ ppc'[w] = "closed")]_vars
    /\ [][(sErr' = "other" /\ spc' # spc) =>
                /\ UNCHANGED sConsumed
                /\ (spc # "L579") => (sEvents' = sEvents)
                /\ (spc = "L579") =>
                      (/\ sEvents' = Append(sEvents, FailedEvent)
                       /\ sOwn'[Len(sOwn')] = FailedEvent
                       /\ \A k \in 1..Len(sOwn') : sOwn'[k].type \notin {"RW", "Succeeded"}
                       /\ sRet' = [n |-> sN, err |-> "other"]
                       /\ spc' = "closed")]_vars

\* a Read of the single stream, after an earlier one consumed a byte, got a
\* byte together with an error: Failed was posted, the byte and the error
\* were returned, and the byte was not counted
C15_Witness ==
    /\ spc = "closed" /\ sErr = "other"
    /\ sRet = [n |-> 1, err |-> "other"]
    /\ sOwn = <<FailedEvent>>
    /\ sConsumed = 1 /\ sRem = sTotal - 2
    /\ StreamEventCount("RW") = 1 /\ StreamEventCount("Succeeded") = 0

(***************************************************************************)
(* ReadCloserWithLimiter.Read (type_internal.go:615-625), one step per     *)
(* call it makes: limiter.Acquire, time.Sleep, base.Read.                  *)
(***************************************************************************)
Wants == 0..MaxWant
Waits == 0..MaxWait

LimiterIdle ==
    /\ lpc = "closed"
    /\ lWant = 0
    /\ lAsked = 0
    /\ lOk = FALSE
    /\ lWait = 0
    /\ lSlept = 0
    /\ lRefusals = 0
    /\ lSleeps = 0
    /\ lBaseReads = 0
    /\ lRet = <<>>

LimiterInit ==
    /\ lpc = "idle"
    /\ lWant = 0
    /\ lAsked = 0
    /\ lOk = FALSE
    /\ lWait = 0
    /\ lSlept = 0
    /\ lRefusals = 0
    /\ lSleeps = 0
    /\ lBaseReads = 0
    /\ lRet = <<>>

\* a counter of the model that stops counting at MaxRefusals
CountUpTo(c) == IF c < MaxRefusals THEN c + 1 ELSE c

\* the caller calls Read(p); line 616: want := len(p)
LRead(want) ==
    /\ lpc \in {"idle", "done"}
    /\ lWant' = want
    /\ lpc' = "L618"
    /\ lAsked' = 0
    /\ lOk' = FALSE
    /\ lWait' = 0
    /\ lSlept' = 0
    /\ lRefusals' = 0
    /\ lSleeps' = 0
    /\ lBaseReads' = 0
    /\ lRet' = <<>>
    /\ UNCHANGED exceptLimiter

\* the wrapped stream is read whatever the limiter answered
ReadWhateverTheAnswer(ok) == "L624"

\* lines 619-622: break out of the loop when granted, sleep otherwise
AfterAcquire(ok) == IF ok THEN "L624" ELSE "L622"

\* line 618: ok, timeToWait := r.limiter.Acquire(int64(want))
LAcquire(ok, timeToWait) ==
    /\ lpc = "L618"
    /\ lAsked' = lWant
    /\ lOk' = ok
    /\ lWait' = timeToWait
    /\ lRefusals' = IF ok THEN lRefusals ELSE CountUpTo(lRefusals)
    /\ lpc' = AfterAcquire(ok)
    /\ UNCHANGED <<lWant, lSlept, lSleeps, lBaseReads, lRet>>
    /\ UNCHANGED exceptLimiter

\* line 622: time.Sleep(timeToWait), then the loop asks again
LSleep ==
    /\ lpc = "L622"
    /\ lSlept' = lWait
    /\ lSleeps' = CountUpTo(lSleeps)
    /\ lpc' = "L618"
    /\ UNCHANGED <<lWant, lAsked, lOk, lWait, lRefusals, lBaseReads, lRet>>
    /\ UNCHANGED exceptLimiter

\* line 624: return r.base.Read(p); the stream returns at most len(p) bytes
LBaseRead(n, err) ==
    /\ lpc = "L624"
    /\ n <= lWant
    /\ lBaseReads' = lBaseReads + 1
    /\ lRet' = [n |-> n, err |-> err]
    /\ lpc' = "done"
    /\ UNCHANGED <<lWant, lAsked, lOk, lWait, lSlept, lRefusals, lSleeps>>
    /\ UNCHANGED exceptLimiter

LimiterNext ==
    \/ \E want \in Wants : LRead(want)
    \/ \E ok \in BOOLEAN, timeToWait \in Waits : LAcquire(ok, timeToWait)
    \/ LSleep
    \/ \E n \in Wants, err \in {"nil", "EOF", "other"} : LBaseRead(n, err)

\* the limiter answers, a sleep ends and the wrapped stream returns
LimiterFairness ==
    /\ WF_vars(\E ok \in BOOLEAN, timeToWait \in Waits : LAcquire(ok, timeToWait))
    /\ WF_vars(LSleep)
    /\ WF_vars(\E n \in Wants, err \in {"nil", "EOF", "other"} : LBaseRead(n, err))

(***************************************************************************)
(* C18: Read delegates to the wrapped stream exactly once and only after   *)
(* the limiter granted an Acquire of len(p); after every refusal it sleeps *)
(* the wait the limiter suggested and asks again for the same amount; once *)
(* the limiter grants, Read terminates; and while the limiter keeps        *)
(* refusing, the wrapped stream is never read.                             *)
(***************************************************************************)
C18_ReadOnlyAfterGrant ==
    /\ [](/\ lBaseReads <= 1
          /\ (lBaseReads = 1 \/ lpc = "L624") => (lOk /\ lAsked = lWant)
          /\ (lpc = "done") <=> (lBaseReads = 1)
          /\ (lpc = "L618") => (lSleeps = lRefusals)
          /\ (lpc = "L622") => (~lOk /\ lAsked = lWant /\ lBaseReads = 0)
          /\ (lpc = "L618" /\ lSleeps > 0) => (lSlept = lWait))
    /\ [][/\ (lpc = "L618" /\ lpc' # lpc) => (lAsked' = lWant /\ lBaseReads' = lBaseReads)
          /\ (lpc = "L622" /\ lpc' # lpc)
                => (lpc' = "L618" /\ lSlept' = lWait /\ lWant' = lWant
                    /\ lBaseReads' = lBaseReads)]_vars
    /\ (lpc = "L622") ~> (lpc = "L618")
    /\ (lpc \in {"L618", "L622", "L624"} /\ lOk) ~> (lpc = "done")

\* the limiter refused twice with different waits, Read slept each of them
\* and asked again, the third Acquire was granted and the stream was read
C18_Witness ==
    /\ lpc = "done" /\ lBaseReads = 1
    /\ lRefusals = 2 /\ lSleeps = 2
    /\ lWant = 2 /\ lAsked = 2 /\ lOk
    /\ lSlept = 1 /\ lWait = 0
    /\ lRet = [n |-> 1, err |-> "nil"]


(***************************************************************************)
(* Specifications, one per component.                                      *)
(***************************************************************************)
InitCancel ==
    CancelInit /\ RetryIdle /\ DcpIdle /\ DValidIdle /\ UcpIdle /\ UValidIdle /\ PartsIdle /\ ProgressIdle /\ StreamIdle /\ LimiterIdle
SpecCancel == InitCancel /\ [][CancelNext]_vars

InitRetry ==
    RetryInit /\ CancelIdle /\ DcpIdle /\ DValidIdle /\ UcpIdle /\ UValidIdle /\ PartsIdle /\ ProgressIdle /\ StreamIdle /\ LimiterIdle
SpecRetry == InitRetry /\ [][RetryNext]_vars

InitDValid ==
    DValidInit /\ CancelIdle /\ RetryIdle /\ UcpIdle /\ UValidIdle /\ PartsIdle /\ ProgressIdle /\ StreamIdle /\ LimiterIdle
SpecDValid == InitDValid /\ [][DValidNext]_vars

InitUValid ==
    UValidInit /\ CancelIdle /\ RetryIdle /\ DcpIdle /\ DValidIdle /\ PartsIdle /\ ProgressIdle /\ StreamIdle /\ LimiterIdle
SpecUValid == InitUValid /\ [][UValidNext]_vars

InitParts ==
    PartsInit /\ CancelIdle /\ RetryIdle /\ DValidIdle /\ UValidIdle /\ ProgressIdle /\ StreamIdle /\ LimiterIdle
SpecParts == InitParts /\ [][PartsNext]_vars

InitTask ==
    PartsInit /\ ckKind = "upload" /\ CancelIdle /\ RetryIdle /\ DValidIdle /\ UValidIdle /\ ProgressIdle /\ StreamIdle /\ LimiterIdle
SpecTask == InitTask /\ [][TaskNext]_vars

InitProgress ==
    ProgressInit /\ CancelIdle /\ RetryIdle /\ DcpIdle /\ DValidIdle /\ UcpIdle /\ UValidIdle /\ PartsIdle /\ StreamIdle /\ LimiterIdle
SpecProgress == InitProgress /\ [][ProgressNext]_vars

InitStream ==
    StreamInit /\ CancelIdle /\ RetryIdle /\ DcpIdle /\ DValidIdle /\ UcpIdle /\ UValidIdle /\ PartsIdle /\ ProgressIdle /\ LimiterIdle
SpecStream == InitStream /\ [][StreamNext]_vars

\* a transfer wraps its stream in one of the two decorators
InitDecorators ==
    /\ \/ ProgressInit /\ StreamIdle
       \/ ProgressIdle /\ StreamInit
    /\ CancelIdle /\ RetryIdle /\ DcpIdle /\ DValidIdle /\ UcpIdle /\ UValidIdle /\ PartsIdle
    /\ LimiterIdle
DecoratorsNext == ProgressNext \/ StreamNext
SpecDecorators == InitDecorators /\ [][DecoratorsNext]_vars

InitLimiter ==
    LimiterInit /\ CancelIdle /\ RetryIdle /\ DcpIdle /\ DValidIdle /\ UcpIdle /\ UValidIdle /\ PartsIdle /\ ProgressIdle /\ StreamIdle
SpecLimiter == InitLimiter /\ [][LimiterNext]_vars /\ LimiterFairness

====
